---- MODULE Spec2Model ----
(***************************************************************************)
(* A model of the jfp prompt store (crates/jfp/src/storage), its backup    *)
(* codec and the registry cache loader (crates/jfp/src/registry).          *)
(*                                                                         *)
(* SQL tables are sequences of rows in rowid order (prompts is a set: its  *)
(* primary key is the id and no query depends on its rowid).  Text built   *)
(* by joining is a sequence of its pieces, so that a join is not the       *)
(* identity.  SQL NULL and Rust's None are the value NULL.                 *)
(***************************************************************************)
EXTENDS Integers, Sequences, FiniteSets, TLC

VARIABLES
    db,         \* the committed tables of the store file
    pre,        \* the tables before the last store call
    last,       \* the last store call: [op, arg, ok], and line for an import
    nops,       \* number of store calls made
    now,        \* the wall clock (Utc::now()), in ticks of 1/TicksPerSec second
    wpc,        \* per writing process: the statement of upsert_prompt it is at
    wp,         \* per writing process: the prompt it is writing
    wi,         \* per writing process: its place in the loop it is in
    wstart,     \* per writing process: the tables when its call began
    wres,       \* per writing process: how its last call returned
    wcalls,     \* number of upsert calls begun by the writing processes
    obs,        \* what the reading process last read
    cacheFile,  \* the registry cache file (registry.json)
    metaFile,   \* its sidecar (registry.meta.json)
    lpre,       \* the two files and the clock before the last loader call
    lres,       \* the last loader call and what it returned
    lops,       \* number of loader calls made
    st,         \* an is_stale question and its answer
    out,        \* what the last run of the refresh command reported
    inodes,     \* the files of the cache directory, by inode: what each holds
    paths,      \* the names of the cache directory: the inode each names, or 0
    ppc,        \* per refreshing process: the step of save_cache it is at
    pfd,        \* per refreshing process: the inode its open file is
    pk,         \* per refreshing process: the writes it has made to that file
    robs,       \* what the reading process last read: [path, content]
    xfile,      \* the file export_jsonl last wrote: its lines, or None
    xres,       \* how the last export_jsonl returned, and the store it read
    target,     \* the fresh store the export file was imported into
    tres,       \* how that import_jsonl returned
    efs,        \* the backup directory: per path the lines of the file, or None
    ex,         \* the export_jsonl call under way, step by step
    qr,         \* the last query of the store: its arguments and what it returned
    run         \* the last run of a read-oriented command

storeVars == <<db, pre, last, nops>>
concVars == <<wpc, wp, wi, wstart, wres, wcalls, obs>>
loaderVars == <<cacheFile, metaFile, lpre, lres, lops>>
cmdVars == <<out>>
fsVars == <<inodes, paths, ppc, pfd, pk, robs>>
codecVars == <<xfile, xres, target, tres>>
expVars == <<efs, ex>>
qryVars == <<qr>>
runVars == <<run>>
restVars == <<expVars, qryVars, runVars>>
extVars == <<cmdVars, fsVars, codecVars, restVars>>
vars == <<db, pre, last, nops, now, wpc, wp, wi, wstart, wres, wcalls, obs,
          cacheFile, metaFile, lpre, lres, lops, st, out,
          inodes, paths, ppc, pfd, pk, robs, xfile, xres, target, tres, efs, ex, qr, run>>

NULL == "NULL"

\* An Option or a Result that holds a structure: None, or Some(x).
None == <<>>
Some(x) == <<x>>

(***************************************************************************)
(* Bounds of the model.                                                    *)
(***************************************************************************)
MaxOps == 2
MaxCalls == 1
MaxLoaderOps == 2
MaxRuns == 1
MaxChunks == 2
MaxNow == 5
MaxTtl == 2
CacheTtl == 1
TicksPerSec == 2

Ids == {"p1", "p2"}
Tags == {"a", "b"}
TagLists == {<<>>, <<"a">>, <<"b">>, <<"a", "b">>, <<"b", "a">>, <<"a", "a">>}

(***************************************************************************)
(* types/prompt.rs                                                         *)
(***************************************************************************)
VariableType == {"Text", "Multiline", "File", "Path", "Select"}

PromptVariable(name, vt, required) ==
    [name |-> name, var_type |-> vt, required |-> required,
     description |-> NULL, default |-> NULL]

Prompt_new(id, title, content) ==
    [id |-> id, title |-> title, content |-> content,
     description |-> NULL, category |-> NULL,
     tags |-> <<>>, variables |-> <<>>, featured |-> FALSE,
     version |-> NULL, author |-> NULL, saved_at |-> NULL, is_local |-> FALSE]

\* The two shapes of prompt the calls are made with: a bare one, as
\* Prompt::new builds it, and one with every kind of dependent data set.
Shapes ==
    {[title |-> "t1", content |-> "c1", description |-> NULL, category |-> NULL,
      variables |-> <<>>, featured |-> FALSE],
     [title |-> "t2", content |-> "c2", description |-> "d", category |-> "cat1",
      variables |-> <<PromptVariable("X", "Multiline", TRUE)>>, featured |-> TRUE]}

PromptInputs ==
    {[Prompt_new(id, s.title, s.content) EXCEPT
        !.description = s.description, !.category = s.category,
        !.tags = t, !.variables = s.variables, !.featured = s.featured] :
     id \in Ids, s \in Shapes, t \in TagLists}

(***************************************************************************)
(* storage/database.rs: conversions                                        *)
(***************************************************************************)
var_type_to_str(vt) ==
    CASE vt = "Text" -> "text"
      [] vt = "Multiline" -> "multiline"
      [] vt = "File" -> "file"
      [] vt = "Path" -> "path"
      [] vt = "Select" -> "select"

str_to_var_type(s) ==
    CASE s = "multiline" -> "Multiline"
      [] s = "file" -> "File"
      [] s = "path" -> "Path"
      [] s = "select" -> "Select"
      [] OTHER -> "Text"

\* `flag as i32` on the way in, `row.get::<_, i32>(n)? != 0` on the way out.
bool_as_i32(b) == IF b THEN 1 ELSE 0
i32_as_bool(n) == n /= 0

\* prompt.tags.join(" "): the tags with one " " between neighbours.
RECURSIVE join(_)
join(tags) ==
    IF Len(tags) = 0 THEN <<>>
    ELSE IF Len(tags) = 1 THEN <<tags[1]>>
    ELSE <<tags[1], " ">> \o join(Tail(tags))

(***************************************************************************)
(* storage/schema.rs: the tables                                           *)
(***************************************************************************)
SCHEMA_VERSION == 2

EmptyTables ==
    [prompts |-> {},
     prompt_tags |-> <<>>,
     prompt_variables |-> <<>>,
     prompts_fts |-> <<>>,
     registry_meta |-> [k \in {"schema_version", "data_version", "last_sync"} |->
                          IF k = "schema_version" THEN Some(ToString(SCHEMA_VERSION)) ELSE None]]

HasRow(d, id) == \E r \in d.prompts : r.id = id
RowById(d, id) == CHOOSE r \in d.prompts : r.id = id

(***************************************************************************)
(* storage/database.rs: the SQL statements of the write path.  Each takes  *)
(* the tables and gives [ok, d]: whether the statement succeeded and the   *)
(* tables after it.                                                        *)
(***************************************************************************)
\* INSERT INTO prompts (..., tags_text, ...) ... ON CONFLICT(id) DO UPDATE SET ...
InsertPromptRow(d, p, tags_text) ==
    LET row == [id |-> p.id, title |-> p.title, content |-> p.content,
                description |-> p.description, category |-> p.category,
                tags_text |-> tags_text, featured |-> bool_as_i32(p.featured),
                version |-> p.version, author |-> p.author,
                saved_at |-> p.saved_at, is_local |-> bool_as_i32(p.is_local)]
    IN [d EXCEPT !.prompts = {r \in d.prompts : r.id /= p.id} \cup {row}]

\* The same statement as bulk_upsert_prompts writes it: tags_text is not among
\* the columns, so a new row gets the column's default (NULL) and an existing
\* row keeps the tags_text it had.
InsertPromptRowBulk(d, p) ==
    InsertPromptRow(d, p, IF HasRow(d, p.id) THEN RowById(d, p.id).tags_text ELSE NULL)

\* The statement left out: the tag rows the id had stay.
DeleteTags_Skipped(d, id) == d

\* DELETE FROM prompt_tags WHERE prompt_id = ?
DeleteTags(d, id) ==
    [d EXCEPT !.prompt_tags = SelectSeq(d.prompt_tags, LAMBDA r : r.prompt_id /= id)]

\* INSERT INTO prompt_tags (prompt_id, tag) VALUES (?, ?)
\* PRIMARY KEY (prompt_id, tag); FOREIGN KEY (prompt_id) REFERENCES prompts(id)
InsertTag(d, id, tag) ==
    IF \/ \E i \in 1..Len(d.prompt_tags) :
             d.prompt_tags[i].prompt_id = id /\ d.prompt_tags[i].tag = tag
       \/ ~HasRow(d, id)
    THEN [ok |-> FALSE, d |-> d]
    ELSE [ok |-> TRUE,
          d |-> [d EXCEPT !.prompt_tags = Append(@, [prompt_id |-> id, tag |-> tag])]]

\* for tag in &prompt.tags { execute(INSERT ...)?; }
RECURSIVE InsertTags(_, _, _)
InsertTags(d, id, tags) ==
    IF tags = <<>> THEN [ok |-> TRUE, d |-> d]
    ELSE LET r == InsertTag(d, id, Head(tags))
         IN IF r.ok THEN InsertTags(r.d, id, Tail(tags)) ELSE r

\* The statement left out: the variable rows the id had stay.
DeleteVariables_Skipped(d, id) == d

\* DELETE FROM prompt_variables WHERE prompt_id = ?
DeleteVariables(d, id) ==
    [d EXCEPT !.prompt_variables = SelectSeq(d.prompt_variables, LAMBDA r : r.prompt_id /= id)]

\* INSERT INTO prompt_variables (prompt_id, name, var_type, required, description, default_value)
\* The AUTOINCREMENT id is the row's place in the sequence.
InsertVariable(d, id, var) ==
    [d EXCEPT !.prompt_variables =
        Append(@, [prompt_id |-> id, name |-> var.name,
                   var_type |-> var_type_to_str(var.var_type),
                   required |-> bool_as_i32(var.required),
                   description |-> var.description,
                   default_value |-> var.default])]

RECURSIVE InsertVariables(_, _, _)
InsertVariables(d, id, variables) ==
    IF variables = <<>> THEN d
    ELSE InsertVariables(InsertVariable(d, id, Head(variables)), id, Tail(variables))

\* DELETE FROM prompts_fts WHERE id = ?
DeleteFts(d, id) ==
    [d EXCEPT !.prompts_fts = SelectSeq(d.prompts_fts, LAMBDA r : r.id /= id)]

\* INSERT INTO prompts_fts (id, title, description, content, tags_text)
InsertFts(d, p, tags_text) ==
    [d EXCEPT !.prompts_fts =
        Append(@, [id |-> p.id, title |-> p.title, description |-> p.description,
                   content |-> p.content, tags_text |-> tags_text])]

\* INSERT OR REPLACE INTO registry_meta (key, value)
\* set_meta whose statement writes nothing.
set_meta_NotWritten(d, key, value) == d

set_meta(d, key, value) == [d EXCEPT !.registry_meta[key] = Some(value)]

\* The lines export_jsonl writes for the prompts: what import_jsonl parses
\* out of each.
\* Database::get_meta: SELECT value FROM registry_meta WHERE key = ?; no row
\* is an error (None here).
get_meta(d, key) == d.registry_meta[key]

\* upsert_prompt with its statements in another order: the index entry is
\* written first and the row of the prompt last.
upsert_prompt_RowLast(d, p) ==
    LET tags_text == join(p.tags)
        d1 == InsertFts(DeleteFts(d, p.id), p, tags_text)
        d2 == DeleteTags(d1, p.id)
        r3 == InsertTags(d2, p.id, p.tags)
    IN IF ~r3.ok THEN [ok |-> FALSE, db |-> r3.d]
       ELSE LET d4 == DeleteVariables(r3.d, p.id)
                d5 == InsertVariables(d4, p.id, p.variables)
            IN [ok |-> TRUE, db |-> InsertPromptRow(d5, p, tags_text)]

(***************************************************************************)
(* Database::upsert_prompt: the statements run one after the other on the  *)
(* connection, each in its own implicit transaction; `?` returns at the    *)
(* first one that fails and what ran before it stays.                      *)
(***************************************************************************)
upsert_prompt(d, p) ==
    LET tags_text == join(p.tags)
        d1 == InsertPromptRow(d, p, tags_text)
        d2 == DeleteTags(d1, p.id)
        r3 == InsertTags(d2, p.id, p.tags)
    IN IF ~r3.ok THEN [ok |-> FALSE, db |-> r3.d]
       ELSE LET d4 == DeleteVariables(r3.d, p.id)
                d5 == InsertVariables(d4, p.id, p.variables)
                d6 == DeleteFts(d5, p.id)
                d7 == InsertFts(d6, p, tags_text)
            IN [ok |-> TRUE, db |-> d7]

(***************************************************************************)
(* Database::bulk_upsert_prompts: one transaction; per prompt the row      *)
(* (without tags_text) and the tag rows.  `?` drops the transaction, which *)
(* rolls it back.                                                          *)
(***************************************************************************)
RECURSIVE BulkLoop(_, _)
BulkLoop(tx, prompts) ==
    IF prompts = <<>> THEN [ok |-> TRUE, d |-> tx]
    ELSE LET p == Head(prompts)
             d1 == InsertPromptRowBulk(tx, p)
             d2 == DeleteTags(d1, p.id)
             r3 == InsertTags(d2, p.id, p.tags)
         IN IF r3.ok THEN BulkLoop(r3.d, Tail(prompts)) ELSE r3

\* The loop run on the connection itself, outside a transaction: what ran
\* before a failure stays.
bulk_upsert_prompts_NoRollback(d, prompts) ==
    LET r == BulkLoop(d, prompts)
    IN [ok |-> r.ok, db |-> r.d]

\* bulk_upsert_prompts emptying the tables of the prompts and of their tags
\* at the start of its transaction.
bulk_upsert_prompts_Replacing(d, prompts) ==
    LET r == BulkLoop([d EXCEPT !.prompts = {}, !.prompt_tags = <<>>,
                                !.prompt_variables = <<>>, !.prompts_fts = <<>>], prompts)
    IN IF r.ok THEN [ok |-> TRUE, db |-> r.d] ELSE [ok |-> FALSE, db |-> d]

bulk_upsert_prompts(d, prompts) ==
    LET r == BulkLoop(d, prompts)
    IN IF r.ok THEN [ok |-> TRUE, db |-> r.d] ELSE [ok |-> FALSE, db |-> d]

(***************************************************************************)
(* storage/jsonl.rs: import.  A file is a sequence of lines; a line is     *)
(* blank, the metadata object (it holds the key "_meta"), the JSON of a    *)
(* prompt, or text that is not JSON of either.                             *)
(***************************************************************************)
\* DateTime::to_rfc3339 and DateTime::parse_from_rfc3339.  The text keeps the
\* sub-second part, so parsing it gives the instant back; any other text
\* does not parse.
to_rfc3339(t) == <<"rfc3339", t>>
is_rfc3339(s) == Len(s) = 2 /\ s[1] = "rfc3339"
parse_from_rfc3339(s) == s[2]

BlankLine == [kind |-> "blank"]
MetaLine == [kind |-> "meta"]
\* A line that holds the text "_meta" and is not the JSON of a JsonlMeta.
BadMetaLine == [kind |-> "bad_meta"]
BadLine == [kind |-> "bad"]
PromptLine(p) == [kind |-> "prompt", prompt |-> p]

\* The loop over reader.lines(): the prompts parsed so far, or the number of
\* the line that failed to parse.  The message of a first line that holds
\* "_meta" and does not parse as metadata names no line: line is 0 then.
RECURSIVE ParseLines(_, _, _)
ParseLines(file, line_num, prompts) ==
    IF line_num > Len(file) THEN [ok |-> TRUE, prompts |-> prompts, line |-> 0]
    ELSE LET line == file[line_num]
         IN IF line.kind = "blank" THEN ParseLines(file, line_num + 1, prompts)
            ELSE IF line_num = 1 /\ line.kind = "meta"
                 THEN ParseLines(file, line_num + 1, prompts)
            ELSE IF line_num = 1 /\ line.kind = "bad_meta"
                 THEN [ok |-> FALSE, prompts |-> <<>>, line |-> 0]
            ELSE IF line.kind = "prompt"
                 THEN ParseLines(file, line_num + 1, Append(prompts, line.prompt))
            ELSE [ok |-> FALSE, prompts |-> <<>>, line |-> line_num]

\* import_jsonl with update_data_version run before the lines are parsed: the
\* marker moves whether or not the import goes through.
import_jsonl_VersionFirst(d, file, t) ==
    LET parsed == ParseLines(file, 1, <<>>)
        d0 == set_meta(d, "data_version", to_rfc3339(t))
        r == bulk_upsert_prompts(d0, parsed.prompts)
    IN IF ~parsed.ok THEN [ok |-> FALSE, db |-> d0, line |-> parsed.line, count |-> 0]
       ELSE IF ~r.ok THEN [ok |-> FALSE, db |-> d0, line |-> 0, count |-> 0]
       ELSE [ok |-> TRUE, db |-> r.db, line |-> 0, count |-> Len(parsed.prompts)]

\* import_jsonl: parse every line, bulk_upsert_prompts, update_data_version.
import_jsonl(d, file, t) ==
    LET parsed == ParseLines(file, 1, <<>>)
        r == bulk_upsert_prompts(d, parsed.prompts)
    IN IF ~parsed.ok THEN [ok |-> FALSE, db |-> d, line |-> parsed.line, count |-> 0]
       ELSE IF ~r.ok THEN [ok |-> FALSE, db |-> d, line |-> 0, count |-> 0]
       ELSE [ok |-> TRUE, db |-> set_meta(r.db, "data_version", to_rfc3339(t)),
             line |-> 0, count |-> Len(parsed.prompts)]

(***************************************************************************)
(* storage/database.rs: the read path                                      *)
(***************************************************************************)
\* The order of the strings of Tags under SQLite's BINARY collation.
TagOrder ==
    <<"a", "api", "b", "clean-code", "debug", "design", "docs", "explain", "learning",
      "optimization", "performance", "quality", "readme", "refactor", "review", "tests",
      "troubleshoot">>

\* SELECT tag FROM prompt_tags WHERE prompt_id = ?
\* SQLite answers it from the primary key's index (prompt_id, tag), so the
\* rows come in the order of the tag, not in the order they were inserted.
get_prompt_tags(d, id) ==
    LET have == {d.prompt_tags[i].tag :
                    i \in {j \in 1..Len(d.prompt_tags) : d.prompt_tags[j].prompt_id = id}}
    IN SelectSeq(TagOrder, LAMBDA t : t \in have)

\* SELECT name, var_type, required, description, default_value
\* FROM prompt_variables WHERE prompt_id = ?   (a scan in rowid order)
RECURSIVE RowsToVariables(_)
RowsToVariables(rows) ==
    IF rows = <<>> THEN <<>>
    ELSE <<[name |-> Head(rows).name,
            var_type |-> str_to_var_type(Head(rows).var_type),
            required |-> i32_as_bool(Head(rows).required),
            description |-> Head(rows).description,
            default |-> Head(rows).default_value]>> \o RowsToVariables(Tail(rows))

get_prompt_variables(d, id) ==
    RowsToVariables(SelectSeq(d.prompt_variables, LAMBDA r : r.prompt_id = id))

\* The Prompt built from a row of SELECT id, title, content, ... FROM prompts.
PromptOfRow(r) ==
    [id |-> r.id, title |-> r.title, content |-> r.content,
     description |-> r.description, category |-> r.category,
     tags |-> <<>>, variables |-> <<>>, featured |-> i32_as_bool(r.featured),
     version |-> r.version, author |-> r.author, saved_at |-> r.saved_at,
     is_local |-> i32_as_bool(r.is_local)]

\* Database::get_prompt: Ok(None) when there is no row.
get_prompt(d, id) ==
    IF ~HasRow(d, id) THEN None
    ELSE Some([PromptOfRow(RowById(d, id)) EXCEPT
                 !.tags = get_prompt_tags(d, id),
                 !.variables = get_prompt_variables(d, id)])

\* SELECT COUNT(*) FROM prompts
prompt_count(d) == Cardinality(d.prompts)

(***************************************************************************)
(* registry/embedded.rs: bundled_prompts(), the eight prompts compiled in  *)
(* (their ids, titles, categories, tags and featured flags; the contents   *)
(* are long texts, written "...").                                         *)
(***************************************************************************)
Bundled(id, title, category, tags, featured) ==
    [Prompt_new(id, title, "...") EXCEPT
        !.description = "...", !.category = category, !.tags = tags,
        !.featured = featured, !.version = "1.0.0", !.author = "JeffreysPrompts"]

bundled_prompts ==
    <<Bundled("code-review", "Code Review Assistant", "debugging", <<"review", "quality">>, TRUE),
      Bundled("explain-code", "Code Explainer", "documentation", <<"explain", "learning">>, TRUE),
      Bundled("write-tests", "Test Generator", "testing", <<"tests", "quality">>, TRUE),
      Bundled("refactor", "Refactoring Assistant", "refactoring", <<"refactor", "clean-code">>, FALSE),
      Bundled("debug", "Debug Helper", "debugging", <<"debug", "troubleshoot">>, TRUE),
      Bundled("documentation", "Documentation Writer", "documentation", <<"docs", "readme">>, FALSE),
      Bundled("optimize", "Performance Optimizer", "refactoring", <<"performance", "optimization">>, FALSE),
      Bundled("api-design", "API Design Review", "ideation", <<"api", "design">>, FALSE)>>

(***************************************************************************)
(* registry/loader.rs.  A file is absent, holds JSON of the expected       *)
(* shape, or holds bytes that do not parse as it (corrupt).                *)
(***************************************************************************)
Absent == [kind |-> "absent"]
Corrupt == [kind |-> "corrupt"]
CacheJson(prompts) == [kind |-> "json", prompts |-> prompts]
MetaJson(meta) == [kind |-> "json", meta |-> meta]

CacheMeta(version, etag, fetched_at, n_prompts) ==
    [version |-> version, etag |-> etag, fetched_at |-> fetched_at,
     prompt_count |-> n_prompts]

\* What load and refresh return: Err, or Ok(RegistryLoadResult).
LoadErr == [ok |-> FALSE, prompts |-> <<>>, source |-> "none", stale |-> FALSE]
LoadOk(prompts, source, stale) ==
    [ok |-> TRUE, prompts |-> prompts, source |-> source, stale |-> stale]

\* RegistryLoader::load_cache.  Ok(None) without a cache file; Err when the
\* cache file does not parse; a sidecar that is missing or does not parse is
\* replaced by one made on the spot, with fetched_at = Utc::now().
load_cache(cache, meta, t) ==
    IF cache.kind = "absent" THEN [ok |-> TRUE, cached |-> None]
    ELSE IF cache.kind = "corrupt" THEN [ok |-> FALSE, cached |-> None]
    ELSE [ok |-> TRUE,
          cached |-> Some([prompts |-> cache.prompts,
                           meta |-> IF meta.kind = "json" THEN meta.meta
                                    ELSE CacheMeta(NULL, NULL, to_rfc3339(t),
                                                   Len(cache.prompts))])]

\* Duration::num_seconds: the whole seconds of a duration given in ticks,
\* rounded toward zero.
num_seconds(d) ==
    IF d >= 0 THEN d \div TicksPerSec ELSE -((-d) \div TicksPerSec)

\* RegistryLoader::is_stale, with self.cache_ttl in seconds and Utc::now() = t.
is_stale(meta, cache_ttl, t) ==
    IF ~is_rfc3339(meta.fetched_at) THEN TRUE
    ELSE num_seconds(t - parse_from_rfc3339(meta.fetched_at)) > cache_ttl

\* RegistryLoader::load.  Gives the result, the two files after the call and
\* the number of requests sent to the registry.
load(cache, meta, cache_ttl, t) ==
    LET lc == load_cache(cache, meta, t)
    IN [res |-> IF ~lc.ok THEN LoadErr
                ELSE IF lc.cached /= None
                THEN LoadOk(lc.cached[1].prompts, "Cache",
                            is_stale(lc.cached[1].meta, cache_ttl, t))
                ELSE LoadOk(bundled_prompts, "Bundled", FALSE),
        cache |-> cache, meta |-> meta, fetched |-> 0, if_none_match |-> NULL]

\* fetch_remote taking a failed request for an answer without a body, as it
\* takes a 304.
fetch_remote_ErrorAsNotModified(etag, resp) ==
    IF resp.kind \in {"error", "not_modified"}
    THEN [ok |-> TRUE, prompts |-> None, etag |-> NULL, version |-> NULL]
    ELSE [ok |-> TRUE, prompts |-> Some(resp.prompts), etag |-> resp.etag,
          version |-> resp.version]

\* RegistryLoader::fetch_remote, given what the network answers: an error
\* (timeout, DNS, a status that is neither success nor 304, a body that is
\* not the payload), 304 Not Modified, or a payload with its ETag header.
fetch_remote(etag, resp) ==
    IF resp.kind = "error" THEN [ok |-> FALSE, prompts |-> None, etag |-> NULL, version |-> NULL]
    ELSE IF resp.kind = "not_modified"
    THEN [ok |-> TRUE, prompts |-> None, etag |-> NULL, version |-> NULL]
    ELSE [ok |-> TRUE, prompts |-> Some(resp.prompts), etag |-> resp.etag,
          version |-> resp.version]

\* save_cache without its second half: the payload is replaced, the sidecar
\* is left as it was.
save_cache_PayloadOnly(cache, meta, prompts, etag, version, t, io) ==
    CASE io = "cache_error" -> [ok |-> FALSE, cache |-> cache, meta |-> meta]
      [] io = "cache_flush_lost" -> [ok |-> TRUE, cache |-> Corrupt, meta |-> meta]
      [] OTHER -> [ok |-> TRUE, cache |-> CacheJson(prompts), meta |-> meta]

\* save_cache keeping the etag the sidecar had when the response brings none.
save_cache_KeepsEtag(cache, meta, prompts, etag, version, t, io) ==
    LET kept == IF etag = NULL /\ meta.kind = "json" THEN meta.meta.etag ELSE etag
        new_meta == MetaJson(CacheMeta(version, kept, to_rfc3339(t), Len(prompts)))
    IN CASE io = "cache_error" -> [ok |-> FALSE, cache |-> cache, meta |-> meta]
         [] io = "cache_flush_lost" -> [ok |-> TRUE, cache |-> Corrupt, meta |-> new_meta]
         [] io = "meta_error" -> [ok |-> FALSE, cache |-> CacheJson(prompts), meta |-> meta]
         [] io = "meta_flush_lost" -> [ok |-> TRUE, cache |-> CacheJson(prompts), meta |-> Corrupt]
         [] OTHER -> [ok |-> TRUE, cache |-> CacheJson(prompts), meta |-> new_meta]

\* RegistryLoader::save_cache, given how the file system answers (io).  The
\* payload goes to a temporary file that is renamed over the cache file, then
\* the sidecar the same way.  The BufWriter is dropped without a flush, and a
\* drop ignores the error of its flush: the temporary file may then hold a
\* truncated text and be renamed all the same (flush_lost).
save_cache(cache, meta, prompts, etag, version, t, io) ==
    LET new_meta == MetaJson(CacheMeta(version, etag, to_rfc3339(t), Len(prompts)))
    IN CASE io = "cache_error" -> [ok |-> FALSE, cache |-> cache, meta |-> meta]
         [] io = "cache_flush_lost" -> [ok |-> TRUE, cache |-> Corrupt, meta |-> new_meta]
         [] io = "meta_error" -> [ok |-> FALSE, cache |-> CacheJson(prompts), meta |-> meta]
         [] io = "meta_flush_lost" -> [ok |-> TRUE, cache |-> CacheJson(prompts), meta |-> Corrupt]
         [] OTHER -> [ok |-> TRUE, cache |-> CacheJson(prompts), meta |-> new_meta]

\* touch_cache writing a sidecar made anew, as load_cache makes one: the
\* etag and the version of the old sidecar are dropped.
touch_cache_FreshMeta(meta, t, io) ==
    IF meta.kind /= "json" THEN [ok |-> TRUE, meta |-> meta]
    ELSE CASE io = "meta_error" -> [ok |-> FALSE, meta |-> meta]
           [] io = "meta_flush_lost" -> [ok |-> TRUE, meta |-> Corrupt]
           [] OTHER -> [ok |-> TRUE,
                        meta |-> MetaJson(CacheMeta(NULL, NULL, to_rfc3339(t),
                                                    meta.meta.prompt_count))]

\* RegistryLoader::touch_cache: a sidecar that opens and parses gets
\* fetched_at = Utc::now() and is written back; otherwise nothing is done.
touch_cache(meta, t, io) ==
    IF meta.kind /= "json" THEN [ok |-> TRUE, meta |-> meta]
    ELSE CASE io = "meta_error" -> [ok |-> FALSE, meta |-> meta]
           [] io = "meta_flush_lost" -> [ok |-> TRUE, meta |-> Corrupt]
           [] OTHER -> [ok |-> TRUE,
                        meta |-> MetaJson([meta.meta EXCEPT !.fetched_at = to_rfc3339(t)])]

\* RegistryLoader::refresh.
refresh(cache, meta, cache_ttl, t, resp, io) ==
    LET lc == load_cache(cache, meta, t)
        etag == IF lc.cached /= None THEN lc.cached[1].meta.etag ELSE NULL
        remote == fetch_remote(etag, resp)
        saved == save_cache(cache, meta, remote.prompts[1], remote.etag, remote.version, t, io)
        touched == touch_cache(meta, t, io)
    IN IF ~lc.ok
       THEN [res |-> LoadErr, cache |-> cache, meta |-> meta, fetched |-> 0,
             if_none_match |-> NULL]
       ELSE IF remote.ok /\ remote.prompts /= None
       THEN [res |-> IF saved.ok THEN LoadOk(remote.prompts[1], "Remote", FALSE) ELSE LoadErr,
             cache |-> saved.cache, meta |-> saved.meta, fetched |-> 1,
             if_none_match |-> etag]
       ELSE IF remote.ok /\ lc.cached /= None
       THEN [res |-> IF touched.ok THEN LoadOk(lc.cached[1].prompts, "Cache", FALSE)
                     ELSE LoadErr,
             cache |-> cache, meta |-> touched.meta, fetched |-> 1, if_none_match |-> etag]
       ELSE IF remote.ok
       THEN [load(cache, meta, cache_ttl, t) EXCEPT !.fetched = 1]
       ELSE IF lc.cached /= None
       THEN [res |-> LoadOk(lc.cached[1].prompts, "Cache", TRUE),
             cache |-> cache, meta |-> meta, fetched |-> 1, if_none_match |-> etag]
       ELSE [res |-> LoadErr, cache |-> cache, meta |-> meta, fetched |-> 1,
             if_none_match |-> etag]

(***************************************************************************)
(* The store's calls, one at a time on one connection.                     *)
(***************************************************************************)
\* The lists bulk_upsert_prompts is called with: none, one prompt, or two
\* prompts with different ids taken from BulkPool.
BulkPool ==
    {p \in PromptInputs : p.title = "t2" /\ p.tags \in {<<"b">>, <<"a", "b">>, <<"a", "a">>}}

BulkLists ==
    {<<>>} \cup {<<p>> : p \in PromptInputs}
           \cup {pq \in BulkPool \X BulkPool : pq[1].id /= pq[2].id}

\* The files import is called with.
FilePromptA == CHOOSE p \in PromptInputs : p.id = "p1" /\ p.title = "t2" /\ p.tags = <<"a", "b">>
FilePromptB == CHOOSE p \in PromptInputs : p.id = "p2" /\ p.title = "t1" /\ p.tags = <<"b">>
FilePromptC == CHOOSE p \in PromptInputs : p.id = "p2" /\ p.title = "t2" /\ p.tags = <<"a", "a">>

ImportFiles ==
    {<<MetaLine>>,
     <<MetaLine, PromptLine(FilePromptA), PromptLine(FilePromptB)>>,
     <<PromptLine(FilePromptB), BlankLine, PromptLine(FilePromptA)>>,
     <<MetaLine, PromptLine(FilePromptA), BadLine>>,
     <<MetaLine, PromptLine(FilePromptA), PromptLine(FilePromptC)>>,
     <<PromptLine(FilePromptA), MetaLine>>,
     <<BadMetaLine, PromptLine(FilePromptB)>>,
     <<BlankLine, PromptLine(FilePromptB), BadMetaLine, BadLine>>}

StoreInit ==
    /\ db = EmptyTables
    /\ pre = EmptyTables
    /\ last = [op |-> "open", arg |-> None, ok |-> TRUE]
    /\ nops = 0
    /\ now = 0

Upsert(p) ==
    /\ nops < MaxOps
    /\ LET r == upsert_prompt(db, p)
       IN /\ db' = r.db
          /\ last' = [op |-> "upsert", arg |-> p, ok |-> r.ok]
    /\ pre' = db
    /\ nops' = nops + 1
    /\ UNCHANGED <<now, concVars, loaderVars, st, extVars>>

BulkUpsert(ps) ==
    /\ nops < MaxOps
    /\ LET r == bulk_upsert_prompts(db, ps)
       IN /\ db' = r.db
          /\ last' = [op |-> "bulk_upsert", arg |-> ps, ok |-> r.ok]
    /\ pre' = db
    /\ nops' = nops + 1
    /\ UNCHANGED <<now, concVars, loaderVars, st, extVars>>

Import(file) ==
    /\ nops < MaxOps
    /\ LET r == import_jsonl(db, file, now)
       IN /\ db' = r.db
          /\ last' = [op |-> "import", arg |-> file, ok |-> r.ok, line |-> r.line]
    /\ pre' = db
    /\ nops' = nops + 1
    /\ UNCHANGED <<now, concVars, loaderVars, st, extVars>>

Writers == {"w1", "w2"}

\* No writing or reading process is at work.
ConcIdle ==
    /\ wpc = [w \in Writers |-> "idle"]
    /\ wp = [w \in Writers |-> None]
    /\ wi = [w \in Writers |-> 0]
    /\ wstart = [w \in Writers |-> None]
    /\ wres = [w \in Writers |-> "none"]
    /\ wcalls = 0
    /\ obs = [op |-> "none"]

\* No loader call has been made: neither file exists.
LoaderIdle ==
    /\ cacheFile = Absent
    /\ metaFile = Absent
    /\ lpre = [cache |-> Absent, meta |-> Absent, now |-> 0]
    /\ lres = [op |-> "none", res |-> LoadErr, fetched |-> 0, if_none_match |-> NULL,
               resp |-> [kind |-> "none"], io |-> "none"]
    /\ lops = 0

StaleIdle == st = [fetched_at |-> to_rfc3339(0), ttl |-> 0, now |-> 0, asked |-> FALSE, stale |-> FALSE]

\* Nothing beyond the store and the loader has run.
CmdIdle == out = [exit |-> "none", opened |-> FALSE]

\* The processes that run refresh() side by side.
Savers == {"r1", "r2"}

\* An empty cache directory, no save_cache begun.
FsIdle ==
    /\ inodes = <<>>
    /\ paths = [n \in {"cache", "cache_tmp", "meta", "meta_tmp"} |-> 0]
    /\ ppc = [w \in Savers |-> "idle"]
    /\ pfd = [w \in Savers |-> 0]
    /\ pk = [w \in Savers |-> 0]
    /\ robs = [path |-> "none", content |-> <<>>]

\* No export made, no import of one.
CodecIdle ==
    /\ xfile = None
    /\ xres = [done |-> FALSE]
    /\ target = None
    /\ tres = [done |-> FALSE]

\* A path is the sequence of the dot-separated parts of its file name.  The
\* destinations export_jsonl is called with.
ExportDests == {<<"backup", "jsonl">>, <<"backup">>}

\* Path::with_extension: the extension, when the name has one, is replaced.
with_extension(path, ext) ==
    IF Len(path) > 1 THEN SubSeq(path, 1, Len(path) - 1) \o ext ELSE path \o ext

\* let temp_path = path.with_extension("jsonl.tmp");
temp_path_InPlace(path) == path

temp_path(path) == with_extension(path, <<"jsonl", "tmp">>)

ExportPaths == ExportDests \cup {temp_path(path) : path \in ExportDests}

\* No export_jsonl call under way.
NoExport ==
    [pc |-> "idle", path |-> <<>>, prompts |-> <<>>, lines |-> <<>>, k |-> 0,
     buf |-> <<>>, res |-> "none", before |-> None, src |-> EmptyTables]

\* An empty backup directory, no export begun.
ExpIdle ==
    /\ efs = [path \in ExportPaths |-> None]
    /\ ex = NoExport

\* No query made.
NoQuery == [op |-> "none"]

QryIdle == qr = NoQuery

\* No read-oriented command has run.
NoRun ==
    [cmd |-> "none", args |-> <<>>, opened |-> FALSE, start_count |-> 0,
     read |-> FALSE, read_db |-> EmptyTables, searches |-> <<>>,
     exit |-> "none", res |-> <<>>]

RunIdle == run = NoRun

ExtIdle == CmdIdle /\ FsIdle /\ CodecIdle /\ ExpIdle /\ QryIdle /\ RunIdle

Init == StoreInit /\ ConcIdle /\ LoaderIdle /\ StaleIdle /\ ExtIdle

Next ==
    \/ \E p \in PromptInputs : Upsert(p)
    \/ \E ps \in BulkLists : BulkUpsert(ps)
    \/ \E file \in ImportFiles : Import(file)

Spec == Init /\ [][Next]_vars

(***************************************************************************)
(* Helpers of the properties.                                              *)
(***************************************************************************)
Range(s) == {s[i] : i \in 1..Len(s)}

HasDuplicate(s) == \E i, j \in 1..Len(s) : i < j /\ s[i] = s[j]

\* The rows of a table that belong to one prompt id.
TagRowsOf(d, id) == SelectSeq(d.prompt_tags, LAMBDA r : r.prompt_id = id)
VariableRowsOf(d, id) == SelectSeq(d.prompt_variables, LAMBDA r : r.prompt_id = id)
FtsRowsOf(d, id) == SelectSeq(d.prompts_fts, LAMBDA r : r.id = id)

\* The tags of the tag rows of an id, in the order they were inserted.
TagsOf(d, id) == [i \in 1..Len(TagRowsOf(d, id)) |-> TagRowsOf(d, id)[i].tag]

\* Everything the store holds about one id.
StateOfId(d, id) ==
    [row |-> IF HasRow(d, id) THEN Some(RowById(d, id)) ELSE None,
     tags |-> TagRowsOf(d, id),
     variables |-> VariableRowsOf(d, id),
     fts |-> FtsRowsOf(d, id)]

\* The tables as contents: what each id has, whatever the rowids are.
Contents(d) == [id \in Ids |-> StateOfId(d, id)]

\* What a caller can observe of the store: get of every id (the tags as a set),
\* the count, and the entries of the search index.
Observable(d) ==
    [get |-> [id \in Ids |->
                IF get_prompt(d, id) = None THEN None
                ELSE Some([get_prompt(d, id)[1] EXCEPT !.tags = Range(@)])],
     count |-> prompt_count(d),
     fts |-> [id \in Ids |-> FtsRowsOf(d, id)]]

\* upsert(p) for each p of ps, in order, whatever each call returns.
RECURSIVE UpsertEach(_, _)
UpsertEach(d, ps) ==
    IF ps = <<>> THEN d ELSE UpsertEach(upsert_prompt(d, Head(ps)).db, Tail(ps))

DistinctIds(ps) == \A i, j \in 1..Len(ps) : i /= j => ps[i].id /= ps[j].id

(***************************************************************************)
(* C1. upsert(prompt) is atomic: when the call returns an error, the store *)
(* is exactly as it was before the call.                                   *)
(***************************************************************************)
C1_UpsertAtomic ==
    (last.op = "upsert" /\ ~last.ok) => db = pre

(***************************************************************************)
(* C2. bulk_upsert(ps), for ps with pairwise distinct ids, leaves the      *)
(* store as calling upsert(p) for each p of ps in order does: the same     *)
(* prompt rows (tags_text included), tag rows, variable rows and           *)
(* search-index entries.                                                   *)
(***************************************************************************)
C2_BulkSameAsUpserts ==
    (last.op = "bulk_upsert" /\ DistinctIds(last.arg))
        => Contents(db) = Contents(UpsertEach(pre, last.arg))

(***************************************************************************)
(* C3. In every reachable state each prompt row has exactly one            *)
(* search-index entry with its id, holding the prompt's current title,     *)
(* description, content and space-joined tags.                             *)
(***************************************************************************)
C3_IndexShadowsPrompts ==
    \A r \in db.prompts :
        LET e == FtsRowsOf(db, r.id)
        IN /\ Len(e) = 1
           /\ e[1].title = r.title
           /\ e[1].description = r.description
           /\ e[1].content = r.content
           /\ e[1].tags_text = join(TagsOf(db, r.id))

(***************************************************************************)
(* C4. A write replaces the tag set: after a prompt is written by upsert   *)
(* or bulk_upsert, get(id) returns exactly the tags of the prompt written; *)
(* no tag the id had before and the new prompt lacks survives.             *)
(***************************************************************************)
C4_TagsReplaced ==
    (last.op \in {"upsert", "bulk_upsert"} /\ last.ok) =>
        LET ps == IF last.op = "upsert" THEN <<last.arg>> ELSE last.arg
        IN \A i \in 1..Len(ps) :
              /\ get_prompt(db, ps[i].id) /= None
              /\ Range(get_prompt(db, ps[i].id)[1].tags) = Range(ps[i].tags)

\* An id that had a tag the new prompt lacks has been written again, by
\* upsert and by bulk_upsert.
C4_Witness ==
    /\ last.op \in {"upsert", "bulk_upsert"} /\ last.ok
    /\ LET ps == IF last.op = "upsert" THEN <<last.arg>> ELSE last.arg
       IN \E i \in 1..Len(ps) :
             /\ Range(get_prompt_tags(pre, ps[i].id)) \ Range(ps[i].tags) /= {}
             /\ Range(ps[i].tags) /= {}
    /\ last.op = "bulk_upsert"

(***************************************************************************)
(* C5. upsert is idempotent: upsert(p) followed by upsert(p) yields the    *)
(* same observable store (get of every id, count, search-index entries)    *)
(* and the same outcome as the single upsert(p).                           *)
(***************************************************************************)
C5_UpsertIdempotent ==
    last.op = "upsert" =>
        LET again == upsert_prompt(db, last.arg)
        IN /\ Observable(again.db) = Observable(db)
           /\ again.ok = last.ok

\* A successful upsert that replaced tags and variables the id already had.
C5_Witness ==
    /\ last.op = "upsert" /\ last.ok
    /\ last.arg.variables /= <<>> /\ last.arg.tags /= <<>>
    /\ HasRow(pre, last.arg.id)
    /\ VariableRowsOf(pre, last.arg.id) /= <<>>
    /\ Observable(pre) /= Observable(db)

(***************************************************************************)
(* C6. bulk_upsert(ps) is all-or-nothing: it fails when the write of a     *)
(* prompt of ps fails, and then the store is exactly as before the call;   *)
(* when it succeeds every prompt of ps is in the store.                    *)
(***************************************************************************)
C6_BulkAllOrNothing ==
    last.op = "bulk_upsert" =>
        /\ (\E i \in 1..Len(last.arg) : HasDuplicate(last.arg[i].tags)) => ~last.ok
        /\ ~last.ok => db = pre
        /\ last.ok =>
              \A i \in 1..Len(last.arg) :
                  /\ HasRow(db, last.arg[i].id)
                  /\ PromptOfRow(RowById(db, last.arg[i].id)) =
                        [last.arg[i] EXCEPT !.tags = <<>>, !.variables = <<>>]

\* A list of two failed at its second prompt after its first, a prompt the
\* store did not hold, had been written inside the transaction.
C6_Witness ==
    /\ last.op = "bulk_upsert" /\ ~last.ok
    /\ Len(last.arg) = 2
    /\ ~HasDuplicate(last.arg[1].tags)
    /\ ~HasRow(pre, last.arg[1].id)
    /\ pre /= EmptyTables

(***************************************************************************)
(* Processes on one store file.  Each statement of upsert_prompt commits   *)
(* on its own (the connection is in autocommit mode), so another process   *)
(* may run between any two of them.  A writer w goes through the           *)
(* statements of upsert_prompt in the order of the code; the reader runs   *)
(* get_prompt.                                                             *)
(***************************************************************************)
WBegin(w, p) ==
    /\ wpc[w] = "idle"
    /\ wcalls < MaxCalls
    /\ wpc' = [wpc EXCEPT ![w] = "row"]
    /\ wp' = [wp EXCEPT ![w] = Some(p)]
    /\ wstart' = [wstart EXCEPT ![w] = Some(db)]
    /\ wres' = [wres EXCEPT ![w] = "none"]
    /\ wcalls' = wcalls + 1
    /\ UNCHANGED <<db, wi, obs, pre, last, nops, now, loaderVars, st, extVars>>

\* INSERT INTO prompts ... ON CONFLICT(id) DO UPDATE
WRow(w) ==
    /\ wpc[w] = "row"
    /\ db' = InsertPromptRow(db, wp[w][1], join(wp[w][1].tags))
    /\ wpc' = [wpc EXCEPT ![w] = "del_tags"]
    /\ UNCHANGED <<wp, wi, wstart, wres, wcalls, obs, pre, last, nops, now, loaderVars, st, extVars>>

\* DELETE FROM prompt_tags
WDelTags(w) ==
    /\ wpc[w] = "del_tags"
    /\ db' = DeleteTags(db, wp[w][1].id)
    /\ wpc' = [wpc EXCEPT ![w] = IF wp[w][1].tags = <<>> THEN "del_vars" ELSE "ins_tag"]
    /\ wi' = [wi EXCEPT ![w] = 1]
    /\ UNCHANGED <<wp, wstart, wres, wcalls, obs, pre, last, nops, now, loaderVars, st, extVars>>

\* INSERT INTO prompt_tags, once per tag; `?` returns at a failure.
WInsTag(w) ==
    /\ wpc[w] = "ins_tag"
    /\ LET p == wp[w][1]
           r == InsertTag(db, p.id, p.tags[wi[w]])
       IN /\ db' = r.d
          /\ IF ~r.ok
             THEN /\ wpc' = [wpc EXCEPT ![w] = "idle"]
                  /\ wres' = [wres EXCEPT ![w] = "err"]
                  /\ wi' = wi
             ELSE /\ wpc' = [wpc EXCEPT ![w] =
                                IF wi[w] = Len(p.tags) THEN "del_vars" ELSE "ins_tag"]
                  /\ wi' = [wi EXCEPT ![w] = @ + 1]
                  /\ wres' = wres
    /\ UNCHANGED <<wp, wstart, wcalls, obs, pre, last, nops, now, loaderVars, st, extVars>>

\* DELETE FROM prompt_variables
WDelVars(w) ==
    /\ wpc[w] = "del_vars"
    /\ db' = DeleteVariables(db, wp[w][1].id)
    /\ wpc' = [wpc EXCEPT ![w] = IF wp[w][1].variables = <<>> THEN "del_fts" ELSE "ins_var"]
    /\ wi' = [wi EXCEPT ![w] = 1]
    /\ UNCHANGED <<wp, wstart, wres, wcalls, obs, pre, last, nops, now, loaderVars, st, extVars>>

\* INSERT INTO prompt_variables, once per variable
WInsVar(w) ==
    /\ wpc[w] = "ins_var"
    /\ LET p == wp[w][1]
       IN /\ db' = InsertVariable(db, p.id, p.variables[wi[w]])
          /\ wpc' = [wpc EXCEPT ![w] =
                        IF wi[w] = Len(p.variables) THEN "del_fts" ELSE "ins_var"]
    /\ wi' = [wi EXCEPT ![w] = @ + 1]
    /\ UNCHANGED <<wp, wstart, wres, wcalls, obs, pre, last, nops, now, loaderVars, st, extVars>>

\* DELETE FROM prompts_fts
WDelFts(w) ==
    /\ wpc[w] = "del_fts"
    /\ db' = DeleteFts(db, wp[w][1].id)
    /\ wpc' = [wpc EXCEPT ![w] = "ins_fts"]
    /\ UNCHANGED <<wp, wi, wstart, wres, wcalls, obs, pre, last, nops, now, loaderVars, st, extVars>>

\* INSERT INTO prompts_fts; Ok(())
WInsFts(w) ==
    /\ wpc[w] = "ins_fts"
    /\ db' = InsertFts(db, wp[w][1], join(wp[w][1].tags))
    /\ wpc' = [wpc EXCEPT ![w] = "idle"]
    /\ wres' = [wres EXCEPT ![w] = "ok"]
    /\ UNCHANGED <<wp, wi, wstart, wcalls, obs, pre, last, nops, now, loaderVars, st, extVars>>

\* Another process calls get_prompt(id).  With the read go the answers the
\* same call gives on the tables from before writer w1's call and on the
\* tables that call leaves.
ReadGet(id) ==
    /\ obs' = [op |-> "get", id |-> id, value |-> get_prompt(db, id),
               during |-> wpc["w1"] /= "idle",
               before |-> IF wstart["w1"] = None THEN get_prompt(db, id)
                          ELSE get_prompt(wstart["w1"][1], id),
               after |-> IF wstart["w1"] = None THEN get_prompt(db, id)
                         ELSE get_prompt(upsert_prompt(wstart["w1"][1], wp["w1"][1]).db, id)]
    /\ UNCHANGED <<db, wpc, wp, wi, wstart, wres, wcalls, pre, last, nops, now, loaderVars, st, extVars>>

\* The stores one successful upsert_prompt leaves, and the empty store.
ConcSeeds ==
    {EmptyTables} \cup
    {upsert_prompt(EmptyTables, p).db : p \in {q \in PromptInputs : upsert_prompt(EmptyTables, q).ok}}

ConcInit ==
    /\ db \in ConcSeeds
    /\ pre = EmptyTables
    /\ last = [op |-> "open", arg |-> None, ok |-> TRUE]
    /\ nops = 0
    /\ now = 0
    /\ ConcIdle
    /\ LoaderIdle
    /\ StaleIdle
    /\ ExtIdle

ConcNext ==
    \/ \E p \in PromptInputs : WBegin("w1", p)
    \/ WRow("w1")
    \/ WDelTags("w1")
    \/ WInsTag("w1")
    \/ WDelVars("w1")
    \/ WInsVar("w1")
    \/ WDelFts("w1")
    \/ WInsFts("w1")
    \/ \E id \in Ids : ReadGet(id)

SpecConc == ConcInit /\ [][ConcNext]_vars

\* The statements taken one by one make the call: when the only writer has
\* returned, the tables are those upsert_prompt gives.
ConcStepsAreTheCall ==
    (wpc["w1"] = "idle" /\ wres["w1"] /= "none") =>
        LET r == upsert_prompt(wstart["w1"][1], wp["w1"][1])
        IN db = r.db /\ (wres["w1"] = "ok") = r.ok

(***************************************************************************)
(* C7. A reader in another process, interleaved at any statement boundary  *)
(* with a writer's upsert(p), sees for p.id either the complete state from *)
(* before the upsert or the complete state from after it.                  *)
(***************************************************************************)
C7_ReaderSeesBeforeOrAfter ==
    obs.op = "get" => (obs.value = obs.before \/ obs.value = obs.after)

(***************************************************************************)
(* The loader's calls, one at a time, and the clock.                       *)
(***************************************************************************)
\* The prompt arrays the registry serves.
Payloads ==
    {<<>>, <<Prompt_new("p1", "t1", "c")>>,
     <<Prompt_new("p1", "t2", "c"), Prompt_new("p2", "t1", "c")>>}

\* What the registry answers: an error, 304, or 200 with a payload, either
\* with an ETag header and a version or with neither.
Responses ==
    {[kind |-> "error"], [kind |-> "not_modified"]} \cup
    {[kind |-> "ok", prompts |-> ps, etag |-> ev[1], version |-> ev[2]] :
        ps \in Payloads, ev \in {<<NULL, NULL>>, <<"e1", "v1">>}}

IoOutcomes == {"ok", "cache_error", "cache_flush_lost", "meta_error", "meta_flush_lost"}

\* The outcomes that can tell a call apart: save_cache runs on a payload,
\* touch_cache on a 304, neither when the request fails.
IoFor(resp) ==
    CASE resp.kind = "error" -> {"ok"}
      [] resp.kind = "not_modified" -> {"ok", "meta_error", "meta_flush_lost"}
      [] OTHER -> IoOutcomes

Load ==
    /\ lops < MaxLoaderOps
    /\ LET r == load(cacheFile, metaFile, CacheTtl, now)
       IN /\ cacheFile' = r.cache
          /\ metaFile' = r.meta
          /\ lres' = [op |-> "load", res |-> r.res, fetched |-> r.fetched,
                       if_none_match |-> r.if_none_match,
                       resp |-> [kind |-> "none"], io |-> "none"]
    /\ lpre' = [cache |-> cacheFile, meta |-> metaFile, now |-> now]
    /\ lops' = lops + 1
    /\ UNCHANGED <<now, storeVars, concVars, st, extVars>>

Refresh(resp, io) ==
    /\ lops < MaxLoaderOps
    /\ LET r == refresh(cacheFile, metaFile, CacheTtl, now, resp, io)
       IN /\ cacheFile' = r.cache
          /\ metaFile' = r.meta
          /\ lres' = [op |-> "refresh", res |-> r.res, fetched |-> r.fetched,
                       if_none_match |-> r.if_none_match,
                       resp |-> resp, io |-> io]
    /\ lpre' = [cache |-> cacheFile, meta |-> metaFile, now |-> now]
    /\ lops' = lops + 1
    /\ UNCHANGED <<now, storeVars, concVars, st, extVars>>

Tick ==
    /\ now < MaxNow
    /\ now' = now + 1
    /\ UNCHANGED <<storeVars, concVars, loaderVars, st, extVars>>

LoaderInit ==
    /\ StoreInit
    /\ ConcIdle
    /\ LoaderIdle
    /\ StaleIdle
    /\ ExtIdle

LoaderNext ==
    \/ Load
    \/ \E resp \in Responses : \E io \in IoFor(resp) : Refresh(resp, io)
    \/ Tick

SpecLoader == LoaderInit /\ [][LoaderNext]_vars

(***************************************************************************)
(* is_stale as a function: every question of the bounded set is asked.     *)
(***************************************************************************)
StaleQuestions ==
    {[fetched_at |-> f, ttl |-> s, now |-> n, asked |-> FALSE, stale |-> FALSE] :
        f \in {to_rfc3339(t) : t \in 0..MaxNow} \cup {<<"yesterday">>},
        s \in 0..MaxTtl, n \in 0..MaxNow}

StaleInit ==
    /\ db = EmptyTables
    /\ pre = EmptyTables
    /\ last = [op |-> "open", arg |-> None, ok |-> TRUE]
    /\ nops = 0
    /\ now = 0
    /\ ConcIdle
    /\ LoaderIdle
    /\ ExtIdle
    /\ st \in StaleQuestions

AskIsStale ==
    /\ ~st.asked
    /\ st' = [st EXCEPT !.asked = TRUE,
                        !.stale = is_stale(CacheMeta(NULL, NULL, st.fetched_at, 0), st.ttl, st.now)]
    /\ UNCHANGED <<now, storeVars, concVars, loaderVars, extVars>>

StaleNext == AskIsStale

SpecStale == StaleInit /\ [][StaleNext]_vars

(***************************************************************************)
(* C8. load() sends no request to the registry and writes neither cache    *)
(* file; when the cache file exists it returns the cached prompts with     *)
(* source=Cache and the stale flag is_stale gives for the sidecar's        *)
(* fetched_at (a stale cache is returned, not discarded); when no cache    *)
(* file exists it returns the non-empty bundled set with source=Bundled,   *)
(* stale=false.  Stated for every cache file that exists, whether or not  *)
(* it parses.                                                              *)
(***************************************************************************)
C8_LoadNeverFetches ==
    lres.op = "load" =>
        /\ lres.fetched = 0
        /\ cacheFile = lpre.cache /\ metaFile = lpre.meta
        /\ lpre.cache.kind /= "absent" =>
              /\ lres.res.ok
              /\ lres.res.source = "Cache"
              /\ lres.res.prompts = lpre.cache.prompts
              /\ lpre.meta.kind = "json" =>
                    lres.res.stale = is_stale(lpre.meta.meta, CacheTtl, lpre.now)
        /\ lpre.cache.kind = "absent" =>
              /\ lres.res = LoadOk(bundled_prompts, "Bundled", FALSE)
              /\ Len(lres.res.prompts) > 0

\* What load() does keep of the above: it never fetches and never writes, a
\* cache file that parses is returned with the stale flag is_stale gives, a
\* cache file that does not parse makes it fail, and no cache file gives the
\* bundled set.
LoadOnParsedCache ==
    lres.op = "load" =>
        /\ lres.fetched = 0
        /\ cacheFile = lpre.cache /\ metaFile = lpre.meta
        /\ lpre.cache.kind = "json" =>
              /\ lres.res.ok
              /\ lres.res.source = "Cache"
              /\ lres.res.prompts = lpre.cache.prompts
              /\ lpre.meta.kind = "json" =>
                    lres.res.stale = is_stale(lpre.meta.meta, CacheTtl, lpre.now)
        /\ lpre.cache.kind = "corrupt" => ~lres.res.ok
        /\ lpre.cache.kind = "absent" =>
              /\ lres.res = LoadOk(bundled_prompts, "Bundled", FALSE)
              /\ Len(lres.res.prompts) > 0

(***************************************************************************)
(* C9. When the cache file exists and the sidecar is missing or does not   *)
(* parse, load() does not fail and returns the cached prompts with         *)
(* source=Cache and stale=true.                                            *)
(***************************************************************************)
C9_NoSidecarMeansStale ==
    (lres.op = "load" /\ lpre.cache.kind = "json" /\ lpre.meta.kind /= "json") =>
        lres.res = LoadOk(lpre.cache.prompts, "Cache", TRUE)

(***************************************************************************)
(* C10. For every fetched_at T, TTL of S seconds and current time now,     *)
(* with sub-second precision, is_stale is true if and only if              *)
(* now - T > S; when now - T equals S exactly the cache is not stale.      *)
(***************************************************************************)
C10_StaleExact ==
    (st.asked /\ is_rfc3339(st.fetched_at)) =>
        (st.stale <=> st.now - parse_from_rfc3339(st.fetched_at) > st.ttl * TicksPerSec)

(***************************************************************************)
(* C11. When refresh() receives new data from the remote (and the file     *)
(* system performs the writes), it writes the new prompt array to the      *)
(* cache file and a sidecar holding the response's etag and version,       *)
(* fetched_at = now and prompt_count, and returns those prompts with       *)
(* source=Remote, stale=false; a load() right after it (less than a second *)
(* later) returns the same prompts with source=Cache, stale=false.         *)
(***************************************************************************)
C11_RefreshStoresNewData ==
    (lres.op = "refresh" /\ lres.fetched = 1 /\ lres.resp.kind = "ok"
        /\ lres.io = "ok") =>
        /\ cacheFile = CacheJson(lres.resp.prompts)
        /\ metaFile = MetaJson(CacheMeta(lres.resp.version, lres.resp.etag,
                                         to_rfc3339(lpre.now), Len(lres.resp.prompts)))
        /\ lres.res = LoadOk(lres.resp.prompts, "Remote", FALSE)
        /\ now - lpre.now < TicksPerSec =>
              load(cacheFile, metaFile, CacheTtl, now).res
                  = LoadOk(lres.resp.prompts, "Cache", FALSE)

\* refresh() has replaced a cache of one prompt by the two prompts received.
C11_Witness ==
    /\ lres.op = "refresh" /\ lres.resp.kind = "ok" /\ lres.io = "ok"
    /\ lpre.cache.kind = "json" /\ Len(lpre.cache.prompts) = 1
    /\ Len(lres.resp.prompts) = 2
    /\ lres.res.ok
    /\ now = lpre.now

(***************************************************************************)
(* C12. When the remote answers 304 Not Modified to a conditional          *)
(* refresh() (one that sent If-None-Match) and a cache exists (and the     *)
(* file system performs the write), refresh() returns the cached prompts   *)
(* unchanged with source=Cache, stale=false; the sidecar's fetched_at      *)
(* after the call is the time of the call, later than before whenever      *)
(* time has passed since; and the cache payload file and the sidecar's     *)
(* etag, version and prompt_count are unchanged.                           *)
(***************************************************************************)
C12_NotModifiedTouches ==
    (lres.op = "refresh" /\ lres.fetched = 1 /\ lres.resp.kind = "not_modified"
        /\ lres.if_none_match /= NULL /\ lpre.cache.kind = "json"
        /\ lres.io \notin {"meta_error", "meta_flush_lost"}) =>
        /\ lres.res = LoadOk(lpre.cache.prompts, "Cache", FALSE)
        /\ cacheFile = lpre.cache
        /\ metaFile.kind = "json"
        /\ metaFile.meta.fetched_at = to_rfc3339(lpre.now)
        /\ parse_from_rfc3339(metaFile.meta.fetched_at)
              >= parse_from_rfc3339(lpre.meta.meta.fetched_at)
        /\ lpre.now > parse_from_rfc3339(lpre.meta.meta.fetched_at) =>
              parse_from_rfc3339(metaFile.meta.fetched_at)
                  > parse_from_rfc3339(lpre.meta.meta.fetched_at)
        /\ metaFile.meta.etag = lpre.meta.meta.etag
        /\ metaFile.meta.version = lpre.meta.meta.version
        /\ metaFile.meta.prompt_count = lpre.meta.meta.prompt_count

\* A 304 has answered a conditional refresh() made after the cache was
\* fetched, and the sidecar carries a version.
C12_Witness ==
    /\ lres.op = "refresh" /\ lres.resp.kind = "not_modified"
    /\ lres.if_none_match = "e1" /\ lpre.cache.kind = "json"
    /\ lpre.cache.prompts /= <<>>
    /\ lpre.meta.meta.version = "v1"
    /\ lpre.now > parse_from_rfc3339(lpre.meta.meta.fetched_at)
    /\ lres.res.ok

(***************************************************************************)
(* C13. When the remote fetch of refresh() fails and a cache exists (a     *)
(* cache file that parses), refresh() does not fail: it returns exactly    *)
(* the cached prompts with source=Cache and stale=true, whatever the age   *)
(* of the cache, and leaves both cache files unchanged.                    *)
(***************************************************************************)
C13_FetchErrorFallsBackToCache ==
    (lres.op = "refresh" /\ lres.resp.kind = "error" /\ lpre.cache.kind = "json") =>
        /\ lres.res = LoadOk(lpre.cache.prompts, "Cache", TRUE)
        /\ lres.fetched = 1
        /\ cacheFile = lpre.cache
        /\ metaFile = lpre.meta

\* The fetch has failed over a cache that is_stale calls fresh.
C13_Witness ==
    /\ lres.op = "refresh" /\ lres.resp.kind = "error"
    /\ lpre.cache.kind = "json" /\ lpre.cache.prompts /= <<>>
    /\ lpre.meta.kind = "json"
    /\ ~is_stale(lpre.meta.meta, CacheTtl, lpre.now)
    /\ lres.res.ok

(***************************************************************************)
(* commands/refresh.rs: the refresh command, one run at a time.            *)
(***************************************************************************)
\* The match on loader.refresh() with no fallback in its Err arm: nothing
\* to load.
refresh_outcome_NoFallback(res) ==
    IF res.ok
    THEN [prompts |-> res.prompts,
          source |-> CASE res.source = "Remote" -> "remote"
                       [] res.source = "Cache" -> "cache"
                       [] res.source = "Bundled" -> "bundled"
                       [] OTHER -> "local",
          message |-> IF res.source = "Cache" /\ res.stale
                      THEN Some("Remote refresh failed; using cached registry")
                      ELSE None]
    ELSE [prompts |-> <<>>,
          source |-> "bundled",
          message |-> Some("Remote refresh failed")]

\* run, the match on loader.refresh(): the prompts to load, the source to
\* report and the message, if any.
refresh_outcome(res) ==
    IF res.ok
    THEN [prompts |-> res.prompts,
          source |-> CASE res.source = "Remote" -> "remote"
                       [] res.source = "Cache" -> "cache"
                       [] res.source = "Bundled" -> "bundled"
                       [] OTHER -> "local",
          message |-> IF res.source = "Cache" /\ res.stale
                      THEN Some("Remote refresh failed; using cached registry")
                      ELSE None]
    ELSE [prompts |-> bundled_prompts,
          source |-> "bundled",
          message |-> Some("Remote refresh failed; loaded bundled prompts instead")]

\* run, the loop over the prompts: each is upserted, a failed upsert is
\* passed over and leaves what it wrote.
RECURSIVE UpsertLoop(_, _, _)
UpsertLoop(d, prompts, loaded_count) ==
    IF prompts = <<>> THEN [db |-> d, loaded_count |-> loaded_count]
    ELSE LET r == upsert_prompt(d, Head(prompts))
         IN UpsertLoop(r.db, Tail(prompts),
                       IF r.ok THEN loaded_count + 1 ELSE loaded_count)

\* run(use_json): Database::open() succeeds or not (open_ok); the registry
\* answers resp and the file system io to the loader's refresh().
CmdRefresh(open_ok, resp, io) ==
    /\ lops < MaxRuns
    /\ IF ~open_ok
       THEN /\ out' = [exit |-> "FAILURE", opened |-> FALSE]
            /\ UNCHANGED <<db, pre, last, cacheFile, metaFile, lpre, lres>>
       ELSE LET r == refresh(cacheFile, metaFile, CacheTtl, now, resp, io)
                o == refresh_outcome(r.res)
                l == UpsertLoop(db, o.prompts, 0)
                d == set_meta(l.db, "last_sync", to_rfc3339(now))
            IN /\ cacheFile' = r.cache
               /\ metaFile' = r.meta
               /\ lres' = [op |-> "refresh", res |-> r.res, fetched |-> r.fetched,
                           if_none_match |-> r.if_none_match,
                           resp |-> resp, io |-> io]
               /\ lpre' = [cache |-> cacheFile, meta |-> metaFile, now |-> now]
               /\ db' = d
               /\ pre' = db
               /\ last' = [op |-> "refresh_command", arg |-> Some(o.prompts), ok |-> TRUE]
               /\ out' = [exit |-> "SUCCESS", opened |-> TRUE, refreshed |-> TRUE,
                          prompt_count |-> prompt_count(d), source |-> o.source,
                          message |-> o.message, prompts |-> o.prompts,
                          loaded_count |-> l.loaded_count]
    /\ lops' = lops + 1
    /\ UNCHANGED <<nops, now, concVars, st, fsVars, codecVars, restVars>>

\* Time passes between the runs.
CmdTick ==
    /\ now < MaxNow
    /\ now' = now + 1
    /\ UNCHANGED <<storeVars, concVars, loaderVars, st, extVars>>

\* The cache files a run may find: none, or those a refresh() at time 0 has
\* written for a payload of one prompt.
CmdSeeds ==
    {<<Absent, Absent>>,
     <<CacheJson(<<Prompt_new("p1", "t1", "c")>>),
       MetaJson(CacheMeta("v1", "e1", to_rfc3339(0), 1))>>}

CmdInit ==
    /\ StoreInit
    /\ ConcIdle
    /\ StaleIdle
    /\ ExtIdle
    /\ \E files \in CmdSeeds : cacheFile = files[1] /\ metaFile = files[2]
    /\ lpre = [cache |-> Absent, meta |-> Absent, now |-> 0]
    /\ lres = [op |-> "none", res |-> LoadErr, fetched |-> 0, if_none_match |-> NULL,
               resp |-> [kind |-> "none"], io |-> "none"]
    /\ lops = 0

\* What the registry answers to a run: as Responses, the payloads with their
\* ETag and version; and a payload whose first prompt names a tag twice and
\* has a variable.
CmdResponses ==
    {resp \in Responses : resp.kind = "ok" => (resp.etag = "e1" /\ resp.version = "v1")}
    \cup {[kind |-> "ok", prompts |-> <<FilePromptC, Prompt_new("p1", "t1", "c")>>,
           etag |-> "e1", version |-> "v1"]}

\* Duration::num_hours: the whole hours of a duration given in ticks.
num_hours(d) == num_seconds(d) \div 3600

\* status::run, what it reports of the store: last_sync as get_meta gives it
\* (.ok(): None when there is no row, when the file does not exist or does not
\* open), stale when there is none, when it does not parse, or when it is an
\* hour old.
status(db_exists, open_ok, d, t) ==
    LET last_sync == IF db_exists /\ open_ok THEN get_meta(d, "last_sync") ELSE None
        stale == IF last_sync = None THEN TRUE
                 ELSE IF ~is_rfc3339(last_sync[1]) THEN TRUE
                 ELSE num_hours(t - parse_from_rfc3339(last_sync[1])) >= 1
    IN [prompt_count |-> IF db_exists /\ open_ok THEN prompt_count(d) ELSE 0,
        last_sync |-> last_sync,
        stale |-> stale,
        source |-> IF ~db_exists THEN "bundled"
                   ELSE IF stale THEN "local (stale)" ELSE "local"]

\* The status command.  The store file exists once a run has opened it;
\* args.lops tells how many refresh runs came before.
CmdStatus(db_exists, open_ok) ==
    /\ out.opened => db_exists
    /\ run' = [NoRun EXCEPT !.cmd = "status",
                            !.args = [lops |-> lops],
                            !.opened = db_exists /\ open_ok,
                            !.exit = "SUCCESS",
                            !.res = <<status(db_exists, open_ok, db, now)>>]
    /\ UNCHANGED <<now, storeVars, concVars, loaderVars, st, cmdVars, fsVars, codecVars,
                   expVars, qryVars>>

CmdNext ==
    \/ \E open_ok \in BOOLEAN, resp \in CmdResponses : \E io \in IoFor(resp) :
          CmdRefresh(open_ok, resp, io)
    \/ CmdTick

SpecCmd == CmdInit /\ [][CmdNext]_vars

(***************************************************************************)
(* C14. When the remote fetch of a refresh fails and no cache file exists, *)
(* the refresh gives a successful result carrying the bundled fallback     *)
(* prompts with source=bundled, and the fetch error surfaces to the caller *)
(* as an advisory message next to that result; the refresh as a whole does *)
(* not fail, and no cache file is written.                                 *)
(***************************************************************************)
C14_FetchErrorFallsBackToBundled ==
    (out.opened /\ lres.resp.kind = "error" /\ lpre.cache.kind = "absent") =>
        /\ out.exit = "SUCCESS"
        /\ lres.fetched = 1
        /\ out.prompts = bundled_prompts
        /\ Len(out.prompts) > 0
        /\ out.source = "bundled"
        /\ out.message /= None
        /\ cacheFile = lpre.cache /\ metaFile = lpre.meta

\* A run has met a failing fetch with no cache file and reported the eight
\* bundled prompts.
C14_Witness ==
    /\ out.exit = "SUCCESS" /\ lres.resp.kind = "error" /\ lpre.cache.kind = "absent"
    /\ out.source = "bundled" /\ out.prompt_count = 8

(***************************************************************************)
(* C15. A failure to write the cache payload or the sidecar does not lose  *)
(* fetched data: when the remote returns new data and save_cache fails,    *)
(* refresh() still returns the prompts it fetched.                         *)
(***************************************************************************)
C15_WriteErrorKeepsFetchedData ==
    (lres.op = "refresh" /\ lres.fetched = 1 /\ lres.resp.kind = "ok"
        /\ lres.io \in {"cache_error", "meta_error"}) =>
        /\ lres.res.ok
        /\ lres.res.prompts = lres.resp.prompts

(***************************************************************************)
(* C16. Every refresh() call makes exactly one remote fetch attempt before *)
(* it returns, in every state of the cache files: absent, fresh, stale, or *)
(* present but unparseable.                                                *)
(***************************************************************************)
C16_RefreshFetchesOnce ==
    lres.op = "refresh" => lres.fetched = 1

(***************************************************************************)
(* C17. In every reachable state of the cache files in which both exist    *)
(* (and parse), after an I/O failure at any step of save_cache and after   *)
(* touch_cache too, the sidecar's prompt_count equals the number of        *)
(* prompts in the cache payload file.                                      *)
(***************************************************************************)
C17_SidecarCountsPayload ==
    (cacheFile.kind = "json" /\ metaFile.kind = "json") =>
        metaFile.meta.prompt_count = Len(cacheFile.prompts)

(***************************************************************************)
(* registry/loader.rs, save_cache step by step, run by several processes   *)
(* on one cache directory, with a process that reads the files.  A file    *)
(* is the sequence of the blocks written to it; the BufWriter hands the    *)
(* text to the file in up to MaxChunks writes, block k at place k.  All    *)
(* processes use the same two temporary names, registry.tmp and            *)
(* registry.meta.tmp (cache_path.with_extension("tmp")).                   *)
(***************************************************************************)
\* The text one save_cache call writes to the payload file or the sidecar.
Complete(w, path) ==
    IF path = "cache" THEN [k \in 1..MaxChunks |-> <<w, k>>]
    ELSE << <<w, "meta">> >>

\* write(2) of block x at place k of a file holding c; places skipped over
\* read as zeros.
WriteAt(c, k, x) ==
    [i \in 1..(IF Len(c) > k THEN Len(c) ELSE k) |->
        IF i = k THEN x ELSE IF i <= Len(c) THEN c[i] ELSE "zeros"]

\* File::create(name): an existing file is truncated, else a new one made.
Create(w, name, next_pc) ==
    /\ IF paths[name] /= 0
       THEN /\ inodes' = [inodes EXCEPT ![paths[name]] = <<>>]
            /\ pfd' = [pfd EXCEPT ![w] = paths[name]]
            /\ UNCHANGED paths
       ELSE /\ inodes' = Append(inodes, <<>>)
            /\ pfd' = [pfd EXCEPT ![w] = Len(inodes) + 1]
            /\ paths' = [paths EXCEPT ![name] = Len(inodes) + 1]
    /\ ppc' = [ppc EXCEPT ![w] = next_pc]
    /\ pk' = [pk EXCEPT ![w] = 0]

\* fs::rename(from, to); fails when from names nothing, and the ? returns.
Rename(w, from, to, next_pc) ==
    /\ IF paths[from] = 0
       THEN /\ ppc' = [ppc EXCEPT ![w] = "failed"]
            /\ UNCHANGED paths
       ELSE /\ paths' = [paths EXCEPT ![to] = paths[from], ![from] = 0]
            /\ ppc' = [ppc EXCEPT ![w] = next_pc]
    /\ UNCHANGED <<inodes, pfd, pk>>

\* save_cache is entered; File::create(&temp_path).
SCreateTmp(w) ==
    /\ ppc[w] = "idle"
    /\ Create(w, "cache_tmp", "write")
    /\ UNCHANGED <<robs, now, storeVars, concVars, loaderVars, st, cmdVars, codecVars, restVars>>

\* serde_json::to_writer_pretty and the drop of the BufWriter: one write.
SWrite(w) ==
    /\ ppc[w] = "write"
    /\ inodes' = [inodes EXCEPT ![pfd[w]] = WriteAt(@, pk[w] + 1, <<w, pk[w] + 1>>)]
    /\ pk' = [pk EXCEPT ![w] = @ + 1]
    /\ ppc' = [ppc EXCEPT ![w] = IF pk[w] + 1 = MaxChunks THEN "rename" ELSE "write"]
    /\ UNCHANGED <<paths, pfd, robs, now, storeVars, concVars, loaderVars, st, cmdVars, codecVars, restVars>>

\* fs::rename(&temp_path, &self.cache_path)
SRename(w) ==
    /\ ppc[w] = "rename"
    /\ Rename(w, "cache_tmp", "cache", "meta_create")
    /\ UNCHANGED <<robs, now, storeVars, concVars, loaderVars, st, cmdVars, codecVars, restVars>>

\* File::create(&temp_meta)
SCreateMetaTmp(w) ==
    /\ ppc[w] = "meta_create"
    /\ Create(w, "meta_tmp", "meta_write")
    /\ UNCHANGED <<robs, now, storeVars, concVars, loaderVars, st, cmdVars, codecVars, restVars>>

\* serde_json::to_writer(writer, &meta) and the drop: the sidecar is short,
\* one write.
SWriteMeta(w) ==
    /\ ppc[w] = "meta_write"
    /\ inodes' = [inodes EXCEPT ![pfd[w]] = WriteAt(@, 1, <<w, "meta">>)]
    /\ ppc' = [ppc EXCEPT ![w] = "meta_rename"]
    /\ UNCHANGED <<paths, pfd, pk, robs, now, storeVars, concVars, loaderVars, st, cmdVars, codecVars, restVars>>

\* fs::rename(&temp_meta, &self.meta_path); Ok(())
SRenameMeta(w) ==
    /\ ppc[w] = "meta_rename"
    /\ Rename(w, "meta_tmp", "meta", "done")
    /\ UNCHANGED <<robs, now, storeVars, concVars, loaderVars, st, cmdVars, codecVars, restVars>>

\* load_cache in another process: the file under a name is read whole.
ReadFile(name) ==
    /\ paths[name] /= 0
    /\ robs' = [path |-> name, content |-> inodes[paths[name]]]
    /\ UNCHANGED <<inodes, paths, ppc, pfd, pk, now, storeVars, concVars, loaderVars,
                   st, cmdVars, codecVars, restVars>>

FsInit ==
    /\ StoreInit
    /\ ConcIdle
    /\ LoaderIdle
    /\ StaleIdle
    /\ ExtIdle

FsNext ==
    \/ \E w \in Savers :
          \/ SCreateTmp(w)
          \/ SWrite(w)
          \/ SRename(w)
          \/ SCreateMetaTmp(w)
          \/ SWriteMeta(w)
          \/ SRenameMeta(w)
    \/ \E name \in {"cache", "meta"} : ReadFile(name)

SpecFs == FsInit /\ [][FsNext]_vars

(***************************************************************************)
(* C18. A process that reads the cache payload or the sidecar while other  *)
(* processes run refresh() never reads a half-written file: every read     *)
(* returns the complete text written by one single save_cache call.        *)
(***************************************************************************)
C18_ReadsAreComplete ==
    robs.path /= "none" => \E w \in Savers : robs.content = Complete(w, robs.path)

(***************************************************************************)
(* storage/database.rs list_prompts and storage/jsonl.rs export_jsonl; an  *)
(* export file imported into a fresh store.                                *)
(***************************************************************************)
\* The titles of the model in the order of SQLite's BINARY collation.
TitleOrder ==
    <<"API Design Review", "Code Explainer", "Code Review Assistant", "Debug Helper",
      "Documentation Writer", "Performance Optimizer", "Refactoring Assistant",
      "Test Generator", "t1", "t2", "w">>

\* The rows of a set in some order: ORDER BY title says nothing of the order
\* of rows with the same title.
RECURSIVE AnyOrder(_)
AnyOrder(rows) ==
    IF rows = {} THEN <<>>
    ELSE LET r == CHOOSE x \in rows : TRUE
         IN <<r>> \o AnyOrder(rows \ {r})

RECURSIVE RowsByTitle(_, _)
RowsByTitle(d, k) ==
    IF k > Len(TitleOrder) THEN <<>>
    ELSE AnyOrder({r \in d.prompts : r.title = TitleOrder[k]}) \o RowsByTitle(d, k + 1)

\* The loop of list_prompts: each prompt gets its tags; the variables stay
\* Vec::new().
RECURSIVE LoadTags(_, _)
LoadTags(d, prompts) ==
    IF prompts = <<>> THEN <<>>
    ELSE <<[Head(prompts) EXCEPT !.tags = get_prompt_tags(d, Head(prompts).id)]>>
         \o LoadTags(d, Tail(prompts))

RECURSIVE RowsToPrompts(_)
RowsToPrompts(rows) ==
    IF rows = <<>> THEN <<>>
    ELSE <<PromptOfRow(Head(rows))>> \o RowsToPrompts(Tail(rows))

\* Database::list_prompts
list_prompts(d) == LoadTags(d, RowsToPrompts(RowsByTitle(d, 1)))

\* serde of VariableType, rename_all = "lowercase".
VariantName(vt) ==
    CASE vt = "Text" -> "text"
      [] vt = "Multiline" -> "multiline"
      [] vt = "File" -> "file"
      [] vt = "Path" -> "path"
      [] vt = "Select" -> "select"

VariantOf(name) ==
    CASE name = "text" -> "Text"
      [] name = "multiline" -> "Multiline"
      [] name = "file" -> "File"
      [] name = "path" -> "Path"
      [] name = "select" -> "Select"

\* serde_json::to_writer(&mut writer, prompt): the JSON object of a prompt;
\* a variable's var_type goes under the key "type".
RECURSIVE VariablesToJson(_)
VariablesToJson(vs) ==
    IF vs = <<>> THEN <<>>
    ELSE <<[name |-> Head(vs).name, type |-> VariantName(Head(vs).var_type),
            required |-> Head(vs).required, description |-> Head(vs).description,
            default |-> Head(vs).default]>> \o VariablesToJson(Tail(vs))

PromptToJson(p) ==
    [id |-> p.id, title |-> p.title, content |-> p.content,
     description |-> p.description, category |-> p.category, tags |-> p.tags,
     variables |-> VariablesToJson(p.variables), featured |-> p.featured,
     version |-> p.version, author |-> p.author, saved_at |-> p.saved_at,
     is_local |-> p.is_local]

\* serde_json::from_str::<Prompt>(&line)
RECURSIVE VariablesFromJson(_)
VariablesFromJson(js) ==
    IF js = <<>> THEN <<>>
    ELSE <<[name |-> Head(js).name, var_type |-> VariantOf(Head(js).type),
            required |-> Head(js).required, description |-> Head(js).description,
            default |-> Head(js).default]>> \o VariablesFromJson(Tail(js))

PromptFromJson(j) ==
    [id |-> j.id, title |-> j.title, content |-> j.content,
     description |-> j.description, category |-> j.category, tags |-> j.tags,
     variables |-> VariablesFromJson(j.variables), featured |-> j.featured,
     version |-> j.version, author |-> j.author, saved_at |-> j.saved_at,
     is_local |-> j.is_local]


\* get_data_version: the marker of the store, or the time of the call when
\* the store has none.
get_data_version(d, t) ==
    IF get_meta(d, "data_version") = None THEN to_rfc3339(t)
    ELSE get_meta(d, "data_version")[1]

\* The header line: the JSON of JsonlMeta {_meta: MetaInfo {...}}.
JsonlMeta(version, count, exported_at, schema_version) ==
    [kind |-> "meta",
     meta |-> [version |-> version, count |-> count, exported_at |-> exported_at,
               schema_version |-> schema_version]]

\* The header with the lines of the file counted, the header among them.
ExportHeader_CountsLines(d, prompts, t) ==
    JsonlMeta(get_data_version(d, t), Len(prompts) + 1, to_rfc3339(t), SCHEMA_VERSION)

\* The header export_jsonl writes for a store and its list of prompts.
ExportHeader(d, prompts, t) ==
    JsonlMeta(get_data_version(d, t), Len(prompts), to_rfc3339(t), SCHEMA_VERSION)

RECURSIVE ExportLines(_)
ExportLines(prompts) ==
    IF prompts = <<>> THEN <<>>
    ELSE <<PromptLine(PromptFromJson(PromptToJson(Head(prompts))))>>
         \o ExportLines(Tail(prompts))

\* export_jsonl with the last prompt of the list left out of the loop.
export_jsonl_DropsLast(d, t, io) ==
    LET prompts == list_prompts(d)
        written == IF prompts = <<>> THEN <<>> ELSE SubSeq(prompts, 1, Len(prompts) - 1)
    IN IF io = "file_error"
       THEN [ok |-> FALSE, file |-> None, db |-> d, count |-> 0]
       ELSE [ok |-> TRUE, file |-> Some(<<ExportHeader(d, prompts, t)>> \o ExportLines(written)),
             db |-> set_meta(d, "data_version", to_rfc3339(t)),
             count |-> Len(prompts)]

\* export_jsonl, given how the file system answers (io): the header line and
\* one line per prompt of list_prompts() go to a temporary file that is
\* flushed, synced and renamed to the path; then update_data_version.
export_jsonl(d, t, io) ==
    LET prompts == list_prompts(d)
    IN IF io = "file_error"
       THEN [ok |-> FALSE, file |-> None, db |-> d, count |-> 0]
       ELSE [ok |-> TRUE, file |-> Some(<<ExportHeader(d, prompts, t)>> \o ExportLines(prompts)),
             db |-> set_meta(d, "data_version", to_rfc3339(t)),
             count |-> Len(prompts)]

\* export_jsonl(&db, path), once.
Export(io) ==
    /\ ~xres.done
    /\ LET r == export_jsonl(db, now, io)
       IN /\ xfile' = r.file
          /\ xres' = [done |-> TRUE, ok |-> r.ok, count |-> r.count, src |-> db]
          /\ db' = r.db
          /\ last' = [op |-> "export", arg |-> None, ok |-> r.ok]
    /\ pre' = db
    /\ UNCHANGED <<nops, now, concVars, loaderVars, st, cmdVars, fsVars, restVars, target, tres>>

\* import_jsonl(&mut fresh, path) on a store just created, with the file the
\* export wrote.
Restore ==
    /\ xfile /= None
    /\ ~tres.done
    /\ LET r == import_jsonl(EmptyTables, xfile[1], now)
       IN /\ target' = Some(r.db)
          /\ tres' = [done |-> TRUE, ok |-> r.ok, count |-> r.count]
    /\ UNCHANGED <<storeVars, now, concVars, loaderVars, st, cmdVars, fsVars, restVars, xfile, xres>>

CodecInit ==
    /\ StoreInit
    /\ ConcIdle
    /\ LoaderIdle
    /\ StaleIdle
    /\ ExtIdle

CodecNext ==
    \/ \E p \in PromptInputs : Upsert(p)
    \/ \E file \in ImportFiles : Import(file)
    \/ \E io \in {"ok", "file_error"} : Export(io)
    \/ Restore

SpecCodec == CodecInit /\ [][CodecNext]_vars

\* The ids a store holds.
IdsOf(d) == {r.id : r \in d.prompts}

(***************************************************************************)
(* C19. Export followed by import into a fresh empty store is lossless:    *)
(* for every prompt of the source store, get(id) in the target store       *)
(* returns a prompt equal to the source's get(id) in all fields: title,    *)
(* content, description, category, tags, variables, featured, version,     *)
(* author, saved_at and is_local.                                          *)
(***************************************************************************)
C19_ExportImportLossless ==
    (xres.done /\ xres.ok /\ tres.done) =>
        /\ tres.ok
        /\ \A id \in IdsOf(xres.src) : get_prompt(target[1], id) = get_prompt(xres.src, id)

(***************************************************************************)
(* C20. For every set of prompts in a store, export followed by import     *)
(* into a fresh empty store yields a store whose list() holds exactly the  *)
(* same ids, each with the same content, and whose count equals the        *)
(* exported and the imported counts.                                       *)
(***************************************************************************)
C20_RoundTripByIdAndContent ==
    (xres.done /\ xres.ok /\ tres.done) =>
        LET before == list_prompts(xres.src)
            after == list_prompts(target[1])
        IN /\ tres.ok
           /\ {q.id : q \in Range(after)} = {q.id : q \in Range(before)}
           /\ {<<q.id, q.content>> : q \in Range(after)}
                 = {<<q.id, q.content>> : q \in Range(before)}
           /\ Len(after) = Len(before)
           /\ prompt_count(target[1]) = xres.count
           /\ prompt_count(target[1]) = tres.count
           /\ prompt_count(target[1]) = prompt_count(xres.src)

\* A store of two prompts with different contents has been exported and the
\* file imported into a fresh store.
C20_Witness ==
    /\ xres.done /\ xres.ok /\ tres.done /\ tres.ok
    /\ xres.count = 2
    /\ Cardinality({q.content : q \in Range(list_prompts(xres.src))}) = 2

\* Line n of a file is not taken as a prompt, nor skipped: it is not blank,
\* not the JSON of a prompt, and not a metadata line in first place.
FailsToParse(file, n) ==
    /\ file[n].kind \in {"bad", "bad_meta", "meta"}
    /\ ~(n = 1 /\ file[n].kind = "meta")

\* Line n of a file is a record line: any line but a blank one and a first
\* line that holds "_meta".
IsRecordLine(file, n) ==
    /\ file[n].kind /= "blank"
    /\ ~(n = 1 /\ file[n].kind \in {"meta", "bad_meta"})

(***************************************************************************)
(* C21. If a record line of the file fails to parse (the first line of the *)
(* file that does), import returns an error that identifies that line's    *)
(* number, and the store is exactly as before the call: no prompt of the   *)
(* valid lines before it is applied and the data_version marker is not     *)
(* updated.                                                                *)
(***************************************************************************)
C21_ParseErrorAbortsImport ==
    last.op = "import" =>
        \A n \in 1..Len(last.arg) :
            (/\ IsRecordLine(last.arg, n)
             /\ FailsToParse(last.arg, n)
             /\ \A m \in 1..(n - 1) : ~FailsToParse(last.arg, m))
            => /\ ~last.ok
               /\ last.line = n
               /\ db = pre
               /\ db.registry_meta["data_version"] = pre.registry_meta["data_version"]

\* An import failed at its third line; the line before it holds a prompt
\* the store, which is not empty, does not have.
C21_Witness ==
    /\ last.op = "import" /\ ~last.ok /\ last.line = 3
    /\ last.arg[2].kind = "prompt"
    /\ ~HasRow(pre, last.arg[2].prompt.id)
    /\ prompt_count(pre) > 0

\* The ids of the prompts a file's lines hold.
FileIds(file) == {file[n].prompt.id : n \in {k \in 1..Len(file) : file[k].kind = "prompt"}}

(***************************************************************************)
(* C22. import replaces all prompts of the database with the contents of   *)
(* the file: after a successful import into any store, the set of prompt   *)
(* ids in the store equals the set of ids in the file, so a prompt that    *)
(* was in the store and is not in the file is no longer there.             *)
(***************************************************************************)
C22_ImportReplacesAll ==
    (last.op = "import" /\ last.ok) => IdsOf(db) = FileIds(last.arg)

(***************************************************************************)
(* storage/jsonl.rs export_jsonl, one file-system call at a time.          *)
(***************************************************************************)
\* The stores an export is made of.
ExportSeeds ==
    {EmptyTables,
     UpsertEach(EmptyTables, <<FilePromptA>>),
     UpsertEach(EmptyTables, <<FilePromptA, FilePromptB>>)}

\* What an earlier export left at the destination.
OldExport == export_jsonl(UpsertEach(EmptyTables, <<FilePromptB>>), 0, "ok").file

ExportInit ==
    /\ db \in ExportSeeds
    /\ pre = db
    /\ last = [op |-> "open", arg |-> None, ok |-> TRUE]
    /\ nops = 0
    /\ now = 0
    /\ ConcIdle /\ LoaderIdle /\ StaleIdle /\ CmdIdle /\ FsIdle /\ CodecIdle /\ QryIdle /\ RunIdle
    /\ ex = NoExport
    /\ \E path \in ExportDests : \E old \in {None, OldExport} :
          efs = [q \in ExportPaths |-> IF q = path THEN old ELSE None]

\* What the export steps leave alone besides the store and the directory.
ExportFrame ==
    <<pre, last, nops, now, concVars, loaderVars, st, cmdVars, fsVars, codecVars, qryVars,
      runVars>>

\* fs::create_dir_all(parent)?; db.list_prompts()?
EBegin(path, ok) ==
    /\ ex.pc = "idle"
    /\ ex' = IF ok
             THEN [NoExport EXCEPT !.pc = "create", !.path = path, !.before = efs[path],
                                   !.prompts = list_prompts(db), !.src = db]
             ELSE [NoExport EXCEPT !.pc = "done", !.path = path, !.before = efs[path],
                                   !.res = "err", !.src = db]
    /\ UNCHANGED <<db, efs, ExportFrame>>

\* File::create(&temp_path)?, BufWriter::new(file), and the header built.
ECreate(ok) ==
    /\ ex.pc = "create"
    /\ IF ok
       THEN /\ efs' = [efs EXCEPT ![temp_path(ex.path)] = Some(<<>>)]
            /\ ex' = [ex EXCEPT !.pc = "write", !.k = 1,
                        !.lines = <<ExportHeader(db, ex.prompts, now)>>
                                     \o ExportLines(ex.prompts)]
       ELSE /\ ex' = [ex EXCEPT !.pc = "done", !.res = "err"]
            /\ UNCHANGED efs
    /\ UNCHANGED <<db, ExportFrame>>

\* serde_json::to_writer(&mut writer, ..)?; writeln!(writer)?  The line goes
\* to the BufWriter's buffer; when the buffer is full (spill) it is written
\* to the file, and that write may fail.
EWrite(spill, ok) ==
    /\ ex.pc = "write"
    /\ ex.k <= Len(ex.lines)
    /\ (~spill) => ok
    /\ LET tmp == temp_path(ex.path)
           line == ex.lines[ex.k]
       IN IF ~spill
          THEN /\ ex' = [ex EXCEPT !.buf = Append(@, line), !.k = @ + 1]
               /\ UNCHANGED efs
          ELSE IF ok
          THEN /\ efs' = [efs EXCEPT ![tmp] = Some(@[1] \o ex.buf \o <<line>>)]
               /\ ex' = [ex EXCEPT !.buf = <<>>, !.k = @ + 1]
          ELSE /\ ex' = [ex EXCEPT !.pc = "unwind", !.res = "err"]
               /\ UNCHANGED efs
    /\ UNCHANGED <<db, ExportFrame>>

\* writer.flush()?
EFlush(ok) ==
    /\ ex.pc = "write"
    /\ ex.k > Len(ex.lines)
    /\ IF ok
       THEN /\ efs' = [efs EXCEPT ![temp_path(ex.path)] = Some(@[1] \o ex.buf)]
            /\ ex' = [ex EXCEPT !.buf = <<>>, !.pc = "sync"]
       ELSE /\ ex' = [ex EXCEPT !.pc = "unwind", !.res = "err"]
            /\ UNCHANGED efs
    /\ UNCHANGED <<db, ExportFrame>>

\* The `?` that returns while the BufWriter is alive drops it: the drop
\* writes the buffer out and ignores an error of that write.
EDrop(flushed) ==
    /\ ex.pc = "unwind"
    /\ efs' = IF flushed THEN [efs EXCEPT ![temp_path(ex.path)] = Some(@[1] \o ex.buf)]
              ELSE efs
    /\ ex' = [ex EXCEPT !.pc = "done", !.buf = <<>>]
    /\ UNCHANGED <<db, ExportFrame>>

\* writer.into_inner()?.sync_all()?
ESync(ok) ==
    /\ ex.pc = "sync"
    /\ ex' = IF ok THEN [ex EXCEPT !.pc = "rename"]
             ELSE [ex EXCEPT !.pc = "done", !.res = "err"]
    /\ UNCHANGED <<db, efs, ExportFrame>>

\* fs::rename(&temp_path, path)?
ERename(ok) ==
    /\ ex.pc = "rename"
    /\ LET tmp == temp_path(ex.path)
       IN IF ok
          THEN /\ efs' = [[efs EXCEPT ![tmp] = None] EXCEPT ![ex.path] = efs[tmp]]
               /\ ex' = [ex EXCEPT !.pc = "mark"]
          ELSE /\ ex' = [ex EXCEPT !.pc = "done", !.res = "err"]
               /\ UNCHANGED efs
    /\ UNCHANGED <<db, ExportFrame>>

\* update_data_version(db)?; Ok(count)
EMark(ok) ==
    /\ ex.pc = "mark"
    /\ IF ok
       THEN /\ db' = set_meta(db, "data_version", to_rfc3339(now))
            /\ ex' = [ex EXCEPT !.pc = "done", !.res = "ok"]
       ELSE /\ ex' = [ex EXCEPT !.pc = "done", !.res = "err"]
            /\ UNCHANGED db
    /\ UNCHANGED <<efs, ExportFrame>>

ExportNext ==
    \/ \E path \in ExportDests : \E ok \in BOOLEAN : EBegin(path, ok)
    \/ \E ok \in BOOLEAN : ECreate(ok)
    \/ \E spill, ok \in BOOLEAN : EWrite(spill, ok)
    \/ \E ok \in BOOLEAN : EFlush(ok)
    \/ \E flushed \in BOOLEAN : EDrop(flushed)
    \/ \E ok \in BOOLEAN : ESync(ok)
    \/ \E ok \in BOOLEAN : ERename(ok)
    \/ \E ok \in BOOLEAN : EMark(ok)

SpecExport == ExportInit /\ [][ExportNext]_vars

\* One complete export of a store: the metadata line and one record line per
\* prompt.
IsCompleteExport(content, d) ==
    /\ content /= None
    /\ Len(content[1]) = 1 + prompt_count(d)
    /\ content[1][1].kind = "meta"
    /\ SubSeq(content[1], 2, Len(content[1])) = ExportLines(list_prompts(d))

(***************************************************************************)
(* C23. export never partially overwrites its destination: at every step   *)
(* of export(store, path), also when it fails at any step before the       *)
(* rename, the destination file is either untouched (its previous content, *)
(* or absent) or one complete export made of the metadata line and every   *)
(* record line.                                                            *)
(***************************************************************************)
C23_DestinationNeverPartial ==
    ex.pc /= "idle" =>
        \/ efs[ex.path] = ex.before
        \/ IsCompleteExport(efs[ex.path], ex.src)

\* An export of a store that holds prompts has failed after part of the
\* lines had reached the temporary file; the destination held an earlier
\* export.
C23_Witness ==
    /\ ex.pc = "done" /\ ex.res = "err"
    /\ ex.before /= None
    /\ efs[temp_path(ex.path)] /= None
    /\ Len(efs[temp_path(ex.path)][1]) \in 1..(Len(ex.lines) - 1)

(***************************************************************************)
(* C24. export writes the metadata line first and then exactly one record  *)
(* line per prompt of the store, also for an empty store; the returned     *)
(* count, the metadata's count field and the number of record lines all    *)
(* equal count() of the store at export time.                              *)
(***************************************************************************)
C24_ExportShapeAndCounts ==
    (xres.done /\ xres.ok) =>
        /\ xfile /= None
        /\ LET file == xfile[1]
               n == prompt_count(xres.src)
           IN /\ Len(file) >= 1
              /\ file[1].kind = "meta"
              /\ \A k \in 2..Len(file) : file[k].kind = "prompt"
              /\ \A id \in IdsOf(xres.src) :
                    Cardinality({k \in 2..Len(file) : file[k].prompt.id = id}) = 1
              /\ Len(file) - 1 = n
              /\ file[1].meta.count = n
              /\ xres.count = n

\* A store of two prompts has been exported.
C24_Witness ==
    /\ xres.done /\ xres.ok
    /\ prompt_count(xres.src) = 2
    /\ Len(xfile[1]) = 3

(***************************************************************************)
(* storage/database.rs: the queries of the store.                          *)
(***************************************************************************)
\* The rows of a set as ORDER BY title returns them.
RECURSIVE OrderByTitle(_, _)
OrderByTitle(rows, k) ==
    IF k > Len(TitleOrder) THEN <<>>
    ELSE AnyOrder({r \in rows : r.title = TitleOrder[k]}) \o OrderByTitle(rows, k + 1)

\* The three conditions of list_prompts_filtered on a row of prompts; a
\* filter that is not given (None, false) puts no condition.  `category = ?`
\* is not true of a NULL category.
CategoryCondition(r, category) ==
    category /= None => (r.category /= NULL /\ r.category = category[1])

TagCondition(d, r, tag) ==
    tag /= None =>
        r.id \in {d.prompt_tags[i].prompt_id :
                     i \in {j \in 1..Len(d.prompt_tags) : d.prompt_tags[j].tag = tag[1]}}

FeaturedCondition(r, featured_only) == featured_only => r.featured = 1

\* The conditions joined with OR instead of AND.
Where_AnyCondition(d, r, category, tag, featured_only) ==
    \/ (category = None /\ tag = None /\ ~featured_only)
    \/ (category /= None /\ CategoryCondition(r, category))
    \/ (tag /= None /\ TagCondition(d, r, tag))
    \/ (featured_only /\ FeaturedCondition(r, featured_only))

\* WHERE <conditions joined with " AND ">
Where(d, r, category, tag, featured_only) ==
    /\ CategoryCondition(r, category)
    /\ TagCondition(d, r, tag)
    /\ FeaturedCondition(r, featured_only)

\* Database::list_prompts_filtered
list_prompts_filtered(d, category, tag, featured_only) ==
    LoadTags(d, RowsToPrompts(
        OrderByTitle({r \in d.prompts : Where(d, r, category, tag, featured_only)}, 1)))

(***************************************************************************)
(* The store written by upsert and asked by its queries.                   *)
(***************************************************************************)
\* The prompts the store is written with: the term "w" is the title of one
\* shape, whose content is long, and the content of another; the third holds
\* it nowhere and has no category.
QueryShapes ==
    {[title |-> "w", content |-> "long", category |-> "cat1", featured |-> TRUE],
     [title |-> "t1", content |-> "w", category |-> "cat1", featured |-> FALSE],
     [title |-> "t2", content |-> "c2", category |-> NULL, featured |-> TRUE]}

QueryTagLists == {<<"a">>, <<"b">>, <<"a", "b">>}

QueryInputs ==
    {[Prompt_new(id, s.title, s.content) EXCEPT
        !.category = s.category, !.tags = t, !.featured = s.featured] :
     id \in Ids, s \in QueryShapes, t \in QueryTagLists}

\* The filters list is called with.
CategoryFilters == {None, Some("cat1"), Some("cat2")}
TagFilters == {None, Some("a"), Some("b")}

\* What a query leaves alone: everything but its own record.
QueryFrame ==
    <<storeVars, now, concVars, loaderVars, st, cmdVars, fsVars, codecVars, expVars, runVars>>

\* db.list_prompts_filtered(category, tag, featured_only)
ListCall(category, tag, featured_only) ==
    /\ qr = NoQuery
    /\ qr' = [op |-> "list", category |-> category, tag |-> tag,
              featured_only |-> featured_only, src |-> db,
              res |-> list_prompts_filtered(db, category, tag, featured_only)]
    /\ UNCHANGED QueryFrame

\* The order of the categories under SQLite's BINARY collation.
CategoryOrder ==
    <<"cat1", "cat2", "debugging", "documentation", "ideation", "refactoring", "testing">>

\* COUNT(*) of the group of a tag in prompt_tags.
TagGroupCount(d, tag) ==
    Cardinality({i \in 1..Len(d.prompt_tags) : d.prompt_tags[i].tag = tag})

\* The groups whose count is c, by tag; then those of the smaller counts.
RECURSIVE TagGroupsFrom(_, _)
TagGroupsFrom(d, c) ==
    IF c = 0 THEN <<>>
    ELSE LET tags == SelectSeq(TagOrder, LAMBDA t : TagGroupCount(d, t) = c)
         IN [i \in 1..Len(tags) |-> [tag |-> tags[i], count |-> c]]
            \o TagGroupsFrom(d, c - 1)

\* The groups ordered by tag alone.
tag_counts_ByName(d) ==
    LET tags == SelectSeq(TagOrder, LAMBDA t : TagGroupCount(d, t) > 0)
    IN [i \in 1..Len(tags) |-> [tag |-> tags[i], count |-> TagGroupCount(d, tags[i])]]

\* Database::tag_counts:
\* SELECT tag, COUNT(*) as count FROM prompt_tags GROUP BY tag ORDER BY count DESC, tag
tag_counts(d) == TagGroupsFrom(d, Len(d.prompt_tags))

\* Database::category_counts:
\* SELECT category, COUNT(*) FROM prompts WHERE category IS NOT NULL
\* GROUP BY category ORDER BY category
category_counts(d) ==
    LET cats == SelectSeq(CategoryOrder, LAMBDA c : \E r \in d.prompts : r.category = c)
    IN [i \in 1..Len(cats) |->
           [category |-> cats[i],
            count |-> Cardinality({r \in d.prompts : r.category = cats[i]})]]

\* db.tag_counts()
TagCountsCall ==
    /\ qr = NoQuery
    /\ qr' = [op |-> "tag_counts", src |-> db, res |-> tag_counts(db)]
    /\ UNCHANGED QueryFrame

(***************************************************************************)
(* The full-text index prompts_fts and Database::search.                   *)
(***************************************************************************)
\* The tokens the unicode61 tokenizer makes of a text: the runs of letters
\* and digits, in lower case.  A NULL column has none; "..." stands for a
\* text none of whose words a query of this model asks for.
Words(text) ==
    CASE text = NULL -> <<>>
      [] text = "..." -> <<>>
      [] text = " " -> <<>>
      [] text = "long" -> <<"z", "z", "z", "z", "z", "z", "z", "z", "z", "z",
                            "z", "z", "z", "z", "z", "z", "z", "z", "z">>
      [] text = "code-review" -> <<"code", "review">>
      [] text = "explain-code" -> <<"explain", "code">>
      [] text = "write-tests" -> <<"write", "tests">>
      [] text = "api-design" -> <<"api", "design">>
      [] text = "clean-code" -> <<"clean", "code">>
      [] text = "Code Review Assistant" -> <<"code", "review", "assistant">>
      [] text = "Code Explainer" -> <<"code", "explainer">>
      [] text = "Test Generator" -> <<"test", "generator">>
      [] text = "Refactoring Assistant" -> <<"refactoring", "assistant">>
      [] text = "Debug Helper" -> <<"debug", "helper">>
      [] text = "Documentation Writer" -> <<"documentation", "writer">>
      [] text = "Performance Optimizer" -> <<"performance", "optimizer">>
      [] text = "API Design Review" -> <<"api", "design", "review">>
      [] OTHER -> <<text>>

\* The tokens of a text given as its pieces (tags_text: tags and spaces).
RECURSIVE WordsOfPieces(_)
WordsOfPieces(pieces) ==
    IF pieces = <<>> THEN <<>>
    ELSE Words(Head(pieces)) \o WordsOfPieces(Tail(pieces))

\* The tokens of the five columns of an entry of prompts_fts, in the order
\* of the CREATE VIRTUAL TABLE statement.
ColumnWords(e) ==
    <<Words(e.id), Words(e.title), Words(e.description), Words(e.content),
      WordsOfPieces(e.tags_text)>>

\* How often a phrase occurs in the tokens of a column.
PhraseCount(tokens, phrase) ==
    IF phrase = <<>> THEN 0
    ELSE Cardinality({i \in 1..(Len(tokens) - Len(phrase) + 1) :
                         SubSeq(tokens, i, i + Len(phrase) - 1) = phrase})

\* bm25(prompts_fts, 5.0, 3.0, 2.0, 1.0, 2.0): the weight of each column.
Weights == <<5, 3, 2, 1, 2>>

RECURSIVE SumOver(_, _)
SumOver(f, k) == IF k = 0 THEN 0 ELSE f[k] + SumOver(f, k - 1)

\* The weighted frequency of the phrase in an entry, and the entry's size in
\* tokens.
Freq(e, phrase) ==
    SumOver([c \in 1..5 |-> Weights[c] * PhraseCount(ColumnWords(e)[c], phrase)], 5)

RowSize(e) == SumOver([c \in 1..5 |-> Len(ColumnWords(e)[c])], 5)

TotalSize(d) == SumOver([i \in 1..Len(d.prompts_fts) |-> RowSize(d.prompts_fts[i])],
                        Len(d.prompts_fts))

\* FTS5's bm25() for a query of one phrase, as an exact fraction and in units
\* of the phrase's inverse document frequency, which is positive and the
\* same for every entry:
\*     -1 * idf * f * (k1 + 1) / (f + k1 * (1 - b + b * D / avgdl))
\* with k1 = 1.2, b = 0.75, D the size of the entry, avgdl = total / rows;
\* numerator and denominator are multiplied by 10 * total.
bm25(d, e, phrase) ==
    LET f == Freq(e, phrase)
        total == TotalSize(d)
        rows == Len(d.prompts_fts)
    IN [num |-> 0 - 22 * f * total,
        den |-> 10 * f * total + 3 * total + 9 * RowSize(e) * rows]

\* Fractions with positive denominators.
Negated(x) == [num |-> 0 - x.num, den |-> x.den]
LessEq(x, y) == x.num * y.den <= y.num * x.den
Less(x, y) == x.num * y.den < y.num * x.den

\* A query is the sequence of its lexemes: words, and the characters FTS5
\* gives a meaning to, of which the model has the hyphen and the double quote.
QUOTE == "\""
Specials == {"-", QUOTE}

\* Inside a string of the FTS5 query syntax a double quote is written twice.
RECURSIVE QuotesPaired(_)
QuotesPaired(inner) ==
    IF inner = <<>> THEN TRUE
    ELSE IF Head(inner) /= QUOTE THEN QuotesPaired(Tail(inner))
    ELSE Len(inner) >= 2 /\ inner[2] = QUOTE /\ QuotesPaired(Tail(Tail(inner)))

IsString(query) ==
    /\ Len(query) >= 2
    /\ query[1] = QUOTE
    /\ query[Len(query)] = QUOTE
    /\ QuotesPaired(SubSeq(query, 2, Len(query) - 1))

\* The tokens of the lexemes of a string: the special characters separate.
RECURSIVE WordsOfLexemes(_)
WordsOfLexemes(lexemes) ==
    IF lexemes = <<>> THEN <<>>
    ELSE (IF Head(lexemes) \in Specials THEN <<>> ELSE Words(Head(lexemes)))
         \o WordsOfLexemes(Tail(lexemes))

\* What FTS5 makes of the text given to MATCH: one bare word is a phrase of
\* that word, a string is the phrase of its tokens, and a hyphen or a quote
\* anywhere else is a syntax error.
ParseQuery(query) ==
    IF Len(query) = 1 /\ query[1] \notin Specials
    THEN [ok |-> TRUE, phrase |-> Words(query[1])]
    ELSE IF IsString(query)
    THEN [ok |-> TRUE, phrase |-> WordsOfLexemes(SubSeq(query, 2, Len(query) - 1))]
    ELSE [ok |-> FALSE, phrase |-> <<>>]

\* The entries of a set ordered by rank, lowest first: ORDER BY score says
\* nothing of the order of entries of equal rank.
RECURSIVE OrderByScore(_)
OrderByScore(hits) ==
    IF hits = {} THEN <<>>
    ELSE LET h == CHOOSE x \in hits : \A y \in hits : LessEq(x.score, y.score)
         IN <<h>> \o OrderByScore(hits \ {h})

\* The rows of FROM prompts_fts f JOIN prompts p ON f.id = p.id
\* WHERE prompts_fts MATCH ?, each with its bm25().
Hits(d, phrase) ==
    {[i |-> i, id |-> d.prompts_fts[i].id, score |-> bm25(d, d.prompts_fts[i], phrase)] :
        i \in {j \in 1..Len(d.prompts_fts) :
                  /\ Freq(d.prompts_fts[j], phrase) > 0
                  /\ HasRow(d, d.prompts_fts[j].id)}}

\* LIMIT ?
Limit(rows, limit) == SubSeq(rows, 1, IF Len(rows) < limit THEN Len(rows) ELSE limit)

\* The loop that loads the tags and negates the score.
SearchResults(d, rows) ==
    [k \in 1..Len(rows) |->
        [prompt |-> [PromptOfRow(RowById(d, rows[k].id)) EXCEPT
                        !.tags = get_prompt_tags(d, rows[k].id)],
         score |-> Negated(rows[k].score)]]

\* search with LIMIT applied to the rows before they are ordered.
search_LimitFirst(d, query, limit, io) ==
    LET parsed == ParseQuery(query)
    IN IF io /= "ok" THEN [ok |-> FALSE, err |-> io, res |-> <<>>]
       ELSE IF ~parsed.ok THEN [ok |-> FALSE, err |-> "syntax", res |-> <<>>]
       ELSE [ok |-> TRUE, err |-> "none",
             res |-> SearchResults(d, OrderByScore(
                        Range(Limit(AnyOrder(Hits(d, parsed.phrase)), limit))))]

\* Database::search, given how the database answers (io).
search(d, query, limit, io) ==
    LET parsed == ParseQuery(query)
    IN IF io /= "ok" THEN [ok |-> FALSE, err |-> io, res |-> <<>>]
       ELSE IF ~parsed.ok THEN [ok |-> FALSE, err |-> "syntax", res |-> <<>>]
       ELSE [ok |-> TRUE, err |-> "none",
             res |-> SearchResults(d, Limit(OrderByScore(Hits(d, parsed.phrase)), limit))]

\* format!("\"{}\"", query.replace('"', "\"\""))
RECURSIVE DoubleQuotes(_)
DoubleQuotes(query) ==
    IF query = <<>> THEN <<>>
    ELSE (IF Head(query) = QUOTE THEN <<QUOTE, QUOTE>> ELSE <<Head(query)>>)
         \o DoubleQuotes(Tail(query))

escape_fts_query(query) == <<QUOTE>> \o DoubleQuotes(query) \o <<QUOTE>>

\* The queries and the limits search is called with.
Queries == {<<"w">>, <<"t2">>, <<"-", "w">>, <<QUOTE, "w">>}

MaxLimit == 2

\* db.search(query, limit)
SearchCall(query, limit) ==
    /\ qr = NoQuery
    /\ qr' = [op |-> "search", query |-> query, limit |-> limit, src |-> db,
              out |-> search(db, query, limit, "ok")]
    /\ UNCHANGED QueryFrame

QueryInit == StoreInit /\ ConcIdle /\ LoaderIdle /\ StaleIdle /\ ExtIdle

\* The store is written, then asked: a query changes nothing of the store,
\* so the answers of every reachable store are among the states.
QueryNext ==
    \/ qr = NoQuery /\ \E p \in QueryInputs : Upsert(p)
    \/ \E category \in CategoryFilters : \E tag \in TagFilters :
          \E featured_only \in BOOLEAN : ListCall(category, tag, featured_only)
    \/ TagCountsCall
    \/ \E query \in Queries : \E limit \in 1..MaxLimit : SearchCall(query, limit)

SpecQuery == QueryInit /\ [][QueryNext]_vars

(***************************************************************************)
(* C25. list filters combine with AND: for every store state and every     *)
(* combination of the category, tag and featured_only filters, list        *)
(* returns exactly the prompts P with (no category filter or P.category =  *)
(* category) and (no tag filter or tag in P.tags) and (not featured_only   *)
(* or P.featured); no matching prompt is left out, no other prompt is      *)
(* included and none appears twice.                                        *)
(***************************************************************************)
C25_ListFiltersAnd ==
    qr.op = "list" =>
        LET wanted ==
                {id \in IdsOf(qr.src) :
                    LET P == get_prompt(qr.src, id)[1]
                    IN /\ (qr.category = None \/ P.category = qr.category[1])
                       /\ (qr.tag = None \/ qr.tag[1] \in Range(P.tags))
                       /\ (~qr.featured_only \/ P.featured)}
        IN /\ {qr.res[k].id : k \in 1..Len(qr.res)} = wanted
           /\ Len(qr.res) = Cardinality(wanted)

\* list was called with all three filters on a store of two prompts that
\* both pass one of the filters, and only one of which passes all.
C25_Witness ==
    /\ qr.op = "list"
    /\ qr.category /= None /\ qr.tag /= None /\ qr.featured_only
    /\ prompt_count(qr.src) = 2
    /\ Len(qr.res) = 1
    /\ \A r \in qr.src.prompts : r.category = qr.category[1]

\* The place of a tag in the order of the tags.
TagIndex(tag) == CHOOSE i \in 1..Len(TagOrder) : TagOrder[i] = tag

(***************************************************************************)
(* C26. tag_counts() returns one pair per distinct tag in the store, whose *)
(* count is the number of prompts that currently carry that tag, ordered   *)
(* by count descending and, for equal counts, by tag name ascending; tags  *)
(* of a prompt replaced by a later upsert are not counted.                 *)
(***************************************************************************)
C26_TagCounts ==
    qr.op = "tag_counts" =>
        LET carriers(t) ==
                {id \in IdsOf(qr.src) : t \in Range(get_prompt(qr.src, id)[1].tags)}
            carried == {t \in Range(TagOrder) : carriers(t) /= {}}
        IN /\ {qr.res[k].tag : k \in 1..Len(qr.res)} = carried
           /\ Len(qr.res) = Cardinality(carried)
           /\ \A k \in 1..Len(qr.res) :
                 qr.res[k].count = Cardinality(carriers(qr.res[k].tag))
           /\ \A i, j \in 1..Len(qr.res) :
                 i < j => \/ qr.res[i].count > qr.res[j].count
                          \/ /\ qr.res[i].count = qr.res[j].count
                             /\ TagIndex(qr.res[i].tag) < TagIndex(qr.res[j].tag)

\* tag_counts was called after an upsert had replaced the tags of a prompt,
\* one of which the prompt no longer carries.
C26_Witness ==
    /\ qr.op = "tag_counts"
    /\ qr.src = db
    /\ last.op = "upsert" /\ last.ok
    /\ Range(get_prompt_tags(pre, last.arg.id)) \ Range(last.arg.tags) /= {}
    /\ Len(qr.res) = 1

\* The entries of the index of a store that a phrase matches: it occurs in
\* one of their columns.
Matching(d, phrase) ==
    {i \in 1..Len(d.prompts_fts) :
        \E c \in 1..5 : PhraseCount(ColumnWords(d.prompts_fts[i])[c], phrase) > 0}

(***************************************************************************)
(* C27. search(query, limit) returns at most limit results in order of     *)
(* non-increasing returned score, the returned score being the negation of *)
(* the raw rank, and the results are the most relevant matches: no         *)
(* matching prompt (a prompt whose index entry the query matches) that is  *)
(* left out has a higher returned score than a prompt that is returned.    *)
(***************************************************************************)
C27_SearchTopByScore ==
    (qr.op = "search" /\ qr.out.ok) =>
        LET res == qr.out.res
            phrase == ParseQuery(qr.query).phrase
            fts == qr.src.prompts_fts
            returned == {res[k].prompt.id : k \in 1..Len(res)}
        IN /\ Len(res) <= qr.limit
           /\ \A i, j \in 1..Len(res) : i < j => LessEq(res[j].score, res[i].score)
           /\ \A k \in 1..Len(res) :
                 \E m \in Matching(qr.src, phrase) :
                    /\ fts[m].id = res[k].prompt.id
                    /\ res[k].score = Negated(bm25(qr.src, fts[m], phrase))
           /\ \A m \in Matching(qr.src, phrase) :
                 fts[m].id \notin returned =>
                    \A k \in 1..Len(res) :
                       ~Less(res[k].score, Negated(bm25(qr.src, fts[m], phrase)))

\* A search with a limit of one on a store with two matching prompts of
\* different scores.
C27_Witness ==
    /\ qr.op = "search" /\ qr.out.ok
    /\ qr.limit = 1
    /\ Len(qr.out.res) = 1
    /\ LET phrase == ParseQuery(qr.query).phrase
       IN \E m \in Matching(qr.src, phrase) :
             /\ qr.src.prompts_fts[m].id /= qr.out.res[1].prompt.id
             /\ Less(Negated(bm25(qr.src, qr.src.prompts_fts[m], phrase)), qr.out.res[1].score)

\* The phrase occurs in column c of the index entry of id and in no other
\* column of it.
OnlyInColumn(d, id, phrase, c) ==
    \E i \in 1..Len(d.prompts_fts) :
        /\ d.prompts_fts[i].id = id
        /\ \A k \in 1..5 :
              (PhraseCount(ColumnWords(d.prompts_fts[i])[k], phrase) > 0) <=> (k = c)

\* The place of an id in the results of a search, 0 when it is not there.
PlaceOf(res, id) ==
    IF \E k \in 1..Len(res) : res[k].prompt.id = id
    THEN CHOOSE k \in 1..Len(res) : res[k].prompt.id = id
    ELSE 0

(***************************************************************************)
(* C28. Field weights decide the ranking: in a corpus where term T appears *)
(* only in the title of one prompt and only in the content of another,     *)
(* search(T) returns the title-matching prompt strictly before the         *)
(* content-matching one, with a strictly higher returned score.            *)
(***************************************************************************)
C28_TitleBeforeContent ==
    (qr.op = "search" /\ qr.out.ok /\ qr.limit >= 2) =>
        LET res == qr.out.res
            phrase == ParseQuery(qr.query).phrase
        IN \A x, y \in IdsOf(qr.src) :
              (/\ Len(phrase) = 1
               /\ OnlyInColumn(qr.src, x, phrase, 2)
               /\ OnlyInColumn(qr.src, y, phrase, 4))
              => /\ PlaceOf(res, x) > 0
                 /\ PlaceOf(res, y) > 0
                 /\ PlaceOf(res, x) < PlaceOf(res, y)
                 /\ Less(res[PlaceOf(res, y)].score, res[PlaceOf(res, x)].score)

(***************************************************************************)
(* commands/*.rs: the read-oriented commands.  Each opens the store, seeds *)
(* it with the bundled prompts when it is empty, and reads.                *)
(***************************************************************************)
\* The seeding left out.
seed_if_empty_Never(d) == d

\* let count = db.prompt_count().unwrap_or(0);
\* if count == 0 { for prompt in &bundled_prompts() { let _ = db.upsert_prompt(prompt); } }
seed_if_empty(d) ==
    IF prompt_count(d) = 0 THEN UpsertLoop(d, bundled_prompts, 0).db ELSE d

\* What a command's read gives: whether the command goes on, the result,
\* and the queries it gave to db.search.
Outcome(ok, res, searches) == [ok |-> ok, res |-> res, searches |-> searches]

\* search::run: db.search(query, limit); when it fails, the query escaped
\* and searched again; when that fails too, the error.
search_with_retry(d, query, limit, io) ==
    LET first == search(d, query, limit, io)
        escaped_query == escape_fts_query(query)
        second == search(d, escaped_query, limit, io)
    IN IF first.ok THEN Outcome(TRUE, first.res, <<query>>)
       ELSE IF second.ok THEN Outcome(TRUE, second.res, <<query, escaped_query>>)
       ELSE Outcome(FALSE, <<>>, <<query, escaped_query>>)

\* suggest::run: db.search(task, limit); when it fails, the error.
suggest_search(d, task, limit, io) ==
    LET first == search(d, task, limit, io)
    IN Outcome(first.ok, first.res, <<task>>)

\* show::run, copy::run, render::run: db.get_prompt(id); not found is an error.
get_for_command(d, id) ==
    IF get_prompt(d, id) = None THEN Outcome(FALSE, <<>>, <<>>)
    ELSE Outcome(TRUE, <<get_prompt(d, id)[1]>>, <<>>)

\* random::run: the filtered list; an empty one is an error.
list_for_random(d, category, tag) ==
    LET prompts == list_prompts_filtered(d, category, tag, FALSE)
    IN Outcome(prompts /= <<>>, prompts, <<>>)

\* export::run, the ids given one by one: those not found are skipped.
RECURSIVE GetEach(_, _)
GetEach(d, ids) ==
    IF ids = <<>> THEN <<>>
    ELSE (IF get_prompt(d, Head(ids)) = None THEN <<>> ELSE <<get_prompt(d, Head(ids))[1]>>)
         \o GetEach(d, Tail(ids))

\* export::run: every prompt, or those of the ids; none is an error.
prompts_to_export(d, ids) ==
    LET prompts == IF ids = <<>> \/ ids = <<"all">>
                   THEN list_prompts_filtered(d, None, None, FALSE)
                   ELSE GetEach(d, ids)
    IN Outcome(prompts /= <<>>, prompts, <<>>)

\* What a command leaves alone.
RunFrame == <<now, concVars, loaderVars, st, cmdVars, fsVars, codecVars, expVars, qryVars>>

\* The part the commands share.  valid: the arguments pass the checks made
\* before the store is opened; open_ok: Database::open() succeeds; seeded:
\* the store after the seeding; o: what the read of the seeded store gave;
\* done: the exit status when the read lets the command go on.
RunCommand(cmd, args, valid, open_ok, seeded, o, done) ==
    /\ nops < MaxOps
    /\ IF ~valid \/ ~open_ok
       THEN /\ run' = [NoRun EXCEPT !.cmd = cmd, !.args = args, !.exit = "FAILURE"]
            /\ UNCHANGED <<db, pre, last>>
       ELSE /\ run' = [cmd |-> cmd, args |-> args, opened |-> TRUE,
                       start_count |-> prompt_count(db), read |-> TRUE,
                       read_db |-> seeded, searches |-> o.searches,
                       exit |-> IF o.ok THEN done ELSE "FAILURE", res |-> o.res]
            /\ db' = seeded
            /\ pre' = db
            /\ last' = [op |-> "command", arg |-> None, ok |-> TRUE]
    /\ nops' = nops + 1
    /\ UNCHANGED RunFrame

\* list::run
RunList(open_ok, category, tag, featured) ==
    RunCommand("list", <<category, tag, featured>>, TRUE, open_ok, seed_if_empty(db),
               Outcome(TRUE, list_prompts_filtered(seed_if_empty(db), category, tag, featured),
                       <<>>),
               "SUCCESS")

\* search::run: the limit is checked, then the query, before the store is
\* opened.
RunSearch(open_ok, query, limit, io) ==
    RunCommand("search", [query |-> query, limit |-> limit, io |-> io],
               ~(limit = 0 \/ limit > 100) /\ query /= <<>>, open_ok, seed_if_empty(db),
               search_with_retry(seed_if_empty(db), query, limit, io), "SUCCESS")

\* suggest::run
RunSuggest(open_ok, task, limit, io) ==
    RunCommand("suggest", [query |-> task, limit |-> limit, io |-> io],
               TRUE, open_ok, seed_if_empty(db),
               suggest_search(seed_if_empty(db), task, limit, io), "SUCCESS")

\* The part show::run, copy::run and render::run share.  io: what happens
\* to the step after the read (the clipboard, the context file).
RunGet(cmd, valid, open_ok, id, io, done) ==
    RunCommand(cmd, [ids |-> <<id>>, io |-> io], valid, open_ok, seed_if_empty(db),
               get_for_command(seed_if_empty(db), id), done)

\* show::run: an empty id is refused before the store is opened; the prompt
\* found is printed.
RunShow(open_ok, id) == RunGet("show", id /= "", open_ok, id, "ok", "SUCCESS")

\* copy::run: a clipboard that fails is a warning, the content is printed
\* instead.
RunCopy(open_ok, id, io) == RunGet("copy", TRUE, open_ok, id, io, "SUCCESS")

\* render::run: a context file that cannot be loaded is an error.
RunRender(open_ok, id, io) ==
    RunGet("render", TRUE, open_ok, id, io,
           IF io = "context_error" THEN "FAILURE" ELSE "SUCCESS")

\* categories::run
RunCategories(open_ok) ==
    RunCommand("categories", <<>>, TRUE, open_ok, seed_if_empty(db),
               Outcome(TRUE, category_counts(seed_if_empty(db)), <<>>), "SUCCESS")

\* tags::run
RunTags(open_ok) ==
    RunCommand("tags", <<>>, TRUE, open_ok, seed_if_empty(db),
               Outcome(TRUE, tag_counts(seed_if_empty(db)), <<>>), "SUCCESS")

\* random::run
RunRandom(open_ok, category, tag) ==
    RunCommand("random", <<category, tag>>, TRUE, open_ok, seed_if_empty(db),
               list_for_random(seed_if_empty(db), category, tag), "SUCCESS")

\* export::run: the format is checked before the store is opened.  io: the
\* prompts go to stdout or to files; the directory cannot be created (an
\* error), or a file cannot be written (a message, and the next file).
RunExport(open_ok, format_ok, ids, io) ==
    RunCommand("export", [ids |-> ids, io |-> io], format_ok, open_ok, seed_if_empty(db),
               prompts_to_export(seed_if_empty(db), ids),
               IF io = "mkdir_error" THEN "FAILURE" ELSE "SUCCESS")

\* The read-oriented commands.
ReadCommands ==
    {"list", "search", "show", "categories", "tags", "random", "export", "render", "copy",
     "suggest"}

\* The stores a command finds: a new one, or one written by an upsert.
RunSeeds ==
    {EmptyTables,
     UpsertEach(EmptyTables,
                <<CHOOSE p \in QueryInputs : p.id = "p1" /\ p.title = "w" /\ p.tags = <<"a">> >>)}

\* The arguments the commands are run with.
RunCategoryFilters == {None, Some("debugging")}
RunTagFilters == {None, Some("quality")}
RunIds == {"", "p1", "code-review", "missing"}
RunExportIds == {<<>>, <<"all">>, <<"code-review", "missing">>, <<"missing">>}
RunQueries == {<<>>, <<"w">>, <<"code">>, <<"-", "w">>, <<"code", "-", "review">>, <<QUOTE, "w">>}

RunInit ==
    /\ db \in RunSeeds
    /\ pre = db
    /\ last = [op |-> "open", arg |-> None, ok |-> TRUE]
    /\ nops = 0
    /\ now = 0
    /\ ConcIdle /\ LoaderIdle /\ StaleIdle /\ ExtIdle

RunNext ==
    \E open_ok \in BOOLEAN :
        \/ \E category \in RunCategoryFilters : \E tag \in RunTagFilters :
              \E featured \in BOOLEAN : RunList(open_ok, category, tag, featured)
        \/ \E query \in RunQueries : \E limit \in 0..MaxLimit :
              \E io \in {"ok", "db_error"} : RunSearch(open_ok, query, limit, io)
        \/ \E task \in RunQueries : \E limit \in 0..MaxLimit :
              \E io \in {"ok", "db_error"} : RunSuggest(open_ok, task, limit, io)
        \/ \E id \in RunIds : RunShow(open_ok, id)
        \/ \E id \in RunIds : \E io \in {"ok", "clipboard_error"} : RunCopy(open_ok, id, io)
        \/ \E id \in RunIds : \E io \in {"ok", "context_error"} : RunRender(open_ok, id, io)
        \/ RunCategories(open_ok)
        \/ RunTags(open_ok)
        \/ \E category \in RunCategoryFilters : \E tag \in RunTagFilters :
              RunRandom(open_ok, category, tag)
        \/ \E format_ok \in BOOLEAN : \E ids \in RunExportIds :
              \E io \in {"stdout", "files", "mkdir_error", "write_error"} :
                 RunExport(open_ok, format_ok, ids, io)

SpecRun == RunInit /\ [][RunNext]_vars

(***************************************************************************)
(* C29. A search syntax error is recovered once: whenever                  *)
(* search(query, limit) fails, every caller of the store's search (the     *)
(* search command and the suggest command) re-issues the same query        *)
(* exactly once wrapped as a quoted literal phrase, returns the retry's    *)
(* results if it succeeds, and surfaces an error with a failure exit only  *)
(* if the retry also fails.                                                *)
(***************************************************************************)
C29_SearchRetriedOnce ==
    (run.cmd \in {"search", "suggest"} /\ run.read) =>
        LET first == search(run.read_db, run.args.query, run.args.limit, run.args.io)
            quoted == escape_fts_query(run.args.query)
            retry == search(run.read_db, quoted, run.args.limit, run.args.io)
        IN ~first.ok =>
              /\ run.searches = <<run.args.query, quoted>>
              /\ retry.ok => (run.exit = "SUCCESS" /\ run.res = retry.res)
              /\ ~retry.ok => run.exit = "FAILURE"

(***************************************************************************)
(* C30. A read-oriented command never reads an empty store: for every such *)
(* command (list, search, show, categories, tags, random, export, render,  *)
(* copy, suggest), if count() = 0 when it starts, then every bundled       *)
(* fallback prompt is in the store before the command performs its read.   *)
(***************************************************************************)
C30_SeededBeforeRead ==
    (run.cmd \in ReadCommands /\ run.read /\ run.start_count = 0) =>
        /\ prompt_count(run.read_db) > 0
        /\ \A k \in 1..Len(bundled_prompts) :
              LET b == bundled_prompts[k]
                  got == get_prompt(run.read_db, b.id)
              IN /\ got /= None
                 /\ [got[1] EXCEPT !.tags = Range(@)] = [b EXCEPT !.tags = Range(@)]

\* A command found the store empty and read the bundled prompts from it.
C30_Witness ==
    /\ run.cmd \in ReadCommands /\ run.read /\ run.start_count = 0
    /\ run.cmd = "tags"
    /\ Len(run.res) > 0
    /\ pre = EmptyTables

(***************************************************************************)
(* C31. Exit status reflects the outcome: a command that requests prompts  *)
(* by id (show, copy, render, export with explicit ids) exits with success *)
(* only if the core operation succeeded and every requested id was found   *)
(* in the store, and exits with failure whenever a requested id is not     *)
(* found.                                                                  *)
(***************************************************************************)
\* The command of the last run asked for prompts by id.
RequestsById ==
    \/ run.cmd \in {"show", "copy", "render"}
    \/ run.cmd = "export" /\ run.args.ids /= <<>> /\ run.args.ids /= <<"all">>

\* Every id the last run asked for is in the store it read.
EveryIdFound ==
    \A k \in 1..Len(run.args.ids) : get_prompt(run.read_db, run.args.ids[k]) /= None

\* The step after the read did what the command is for: the prompt was
\* printed, copied or printed instead, rendered, or every file was written.
CoreSucceeded ==
    run.read /\ run.args.io \in {"ok", "clipboard_error", "stdout", "files"}

C31_ExitReflectsOutcome ==
    RequestsById =>
        /\ run.exit = "SUCCESS" => (CoreSucceeded /\ EveryIdFound)
        /\ ~EveryIdFound => run.exit = "FAILURE"

(***************************************************************************)
(* storage/database.rs: Database::open_at on a store file that exists.     *)
(* The file was left by an earlier run, of this or of an older version of  *)
(* the program; open_at opens the connection and calls init_schema.        *)
(***************************************************************************)
\* row.get::<_, String>(0).map(|s| s.parse().unwrap_or(0)), then
\* .unwrap_or(0) when there is no row: the number the marker holds.
stored_schema_version(d) ==
    LET value == d.registry_meta["schema_version"]
    IN IF value = None THEN 0
       ELSE CASE value[1] = "0" -> 0
              [] value[1] = "1" -> 1
              [] value[1] = "2" -> 2
              [] value[1] = "3" -> 3
              [] OTHER -> 0

\* init_schema with DROP_SCHEMA run before CREATE_SCHEMA.
init_schema_Reset(d, io) ==
    IF stored_schema_version(d) < SCHEMA_VERSION
    THEN IF io /= "ok" THEN [ok |-> FALSE, db |-> d]
         ELSE [ok |-> TRUE, db |-> EmptyTables]
    ELSE [ok |-> TRUE, db |-> d]

\* Database::init_schema.  CREATE_SCHEMA holds only CREATE ... IF NOT
\* EXISTS statements: a table that exists is left as it is.  io: the batch
\* or the INSERT OR REPLACE of the marker fails.
init_schema(d, io) ==
    IF stored_schema_version(d) < SCHEMA_VERSION
    THEN IF io /= "ok" THEN [ok |-> FALSE, db |-> d]
         ELSE [ok |-> TRUE,
               db |-> [d EXCEPT !.registry_meta["schema_version"] =
                                   Some(ToString(SCHEMA_VERSION))]]
    ELSE [ok |-> TRUE, db |-> d]

\* Database::open_at.  io = "open_error": Connection::open or a pragma fails.
open_at(d, io) ==
    IF io = "open_error" THEN [ok |-> FALSE, db |-> d] ELSE init_schema(d, io)

\* The markers a store file can hold: none, an older version, the current
\* one, a newer one, a value that is not a number.
OpenMarkers == {None, Some("1"), Some("2"), Some("3"), Some("v1")}

\* The store files: written by upsert_prompt, the marker as it was left.
OpenSeeds ==
    {[s EXCEPT !.registry_meta["schema_version"] = m] :
        s \in {EmptyTables} \cup
              {UpsertEach(EmptyTables, <<p>>) : p \in {i \in PromptInputs : ~HasDuplicate(i.tags)}},
        m \in OpenMarkers}

\* A Database value is at hand: the last open succeeded.
Opened == last.op = "upsert" \/ (last.op = "open_at" /\ last.ok)

OpenAt(io) ==
    /\ nops < MaxOps
    /\ LET r == open_at(db, io)
       IN /\ db' = r.db
          /\ last' = [op |-> "open_at", arg |-> io, ok |-> r.ok]
    /\ pre' = db
    /\ nops' = nops + 1
    /\ UNCHANGED <<now, concVars, loaderVars, st, extVars>>

OpenInit ==
    /\ db \in OpenSeeds
    /\ pre = db
    /\ last = [op |-> "closed", arg |-> None, ok |-> TRUE]
    /\ nops = 0
    /\ now = 0
    /\ ConcIdle /\ LoaderIdle /\ StaleIdle /\ ExtIdle

OpenNext ==
    \/ \E io \in {"ok", "open_error", "schema_error"} : OpenAt(io)
    \/ Opened /\ \E p \in PromptInputs : Upsert(p)

SpecOpen == OpenInit /\ [][OpenNext]_vars

(***************************************************************************)
(* C32. Opening a store never destroys data: open_at on an existing store  *)
(* file leaves every prompt, tag, variable, search-index and metadata row  *)
(* unchanged apart from the schema_version marker, which after the open    *)
(* equals the current schema version whenever it was lower or absent       *)
(* before.                                                                 *)
(***************************************************************************)
\* The rows of a store without the schema_version marker.
RowsBesideMarker(d) ==
    [prompts |-> d.prompts, prompt_tags |-> d.prompt_tags,
     prompt_variables |-> d.prompt_variables, prompts_fts |-> d.prompts_fts,
     data_version |-> d.registry_meta["data_version"],
     last_sync |-> d.registry_meta["last_sync"]]

C32_OpenKeepsData ==
    last.op = "open_at" =>
        /\ RowsBesideMarker(db) = RowsBesideMarker(pre)
        /\ (last.ok /\ pre.registry_meta["schema_version"] \in {None, Some("1")}) =>
              db.registry_meta["schema_version"] = Some("2")

\* A store of an older version, with a prompt, tags, a variable and an index
\* entry, was opened.
C32_Witness ==
    /\ last.op = "open_at" /\ last.ok
    /\ pre.registry_meta["schema_version"] = Some("1")
    /\ pre.prompts /= {} /\ Len(pre.prompt_tags) = 2
    /\ pre.prompt_variables /= <<>> /\ pre.prompts_fts /= <<>>
    /\ db.registry_meta["schema_version"] = Some("2")

(***************************************************************************)
(* C33. Tag order is preserved: for every prompt whose tag list has no     *)
(* duplicates, get(id) and list return the prompt's tags as the same       *)
(* sequence, in the same order, as in the prompt that was upserted.        *)
(***************************************************************************)
C33_TagOrderPreserved ==
    (last.op = "upsert" /\ last.ok /\ ~HasDuplicate(last.arg.tags)) =>
        /\ get_prompt(db, last.arg.id)[1].tags = last.arg.tags
        /\ \A k \in 1..Len(list_prompts(db)) :
              list_prompts(db)[k].id = last.arg.id =>
                 list_prompts(db)[k].tags = last.arg.tags

(***************************************************************************)
(* Two processes, each with its own connection to the store file, call     *)
(* upsert_prompt with the same id at the same time (as two invocations     *)
(* that seed an empty store do).  The statements are those of WRow ..      *)
(* WInsFts; each commits on its own, so the two calls interleave at any    *)
(* statement.                                                              *)
(***************************************************************************)
\* The prompts the two processes write: one id, no tag twice.
WriterInputs ==
    {p \in PromptInputs : p.id = "p1" /\ p.tags \in {<<>>, <<"a">>, <<"b">>, <<"a", "b">>}}

\* A process enters upsert_prompt; each process makes one call.
WCall(w, p) ==
    /\ wpc[w] = "idle"
    /\ wres[w] = "none"
    /\ wp[w] = None
    /\ wpc' = [wpc EXCEPT ![w] = "row"]
    /\ wp' = [wp EXCEPT ![w] = Some(p)]
    /\ wstart' = [wstart EXCEPT ![w] = Some(db)]
    /\ wcalls' = wcalls + 1
    /\ UNCHANGED <<db, wi, wres, obs, pre, last, nops, now, loaderVars, st, extVars>>

WritersInit ==
    /\ db \in {EmptyTables, UpsertEach(EmptyTables, <<FilePromptA>>)}
    /\ pre = db
    /\ last = [op |-> "open", arg |-> None, ok |-> TRUE]
    /\ nops = 0
    /\ now = 0
    /\ ConcIdle /\ LoaderIdle /\ StaleIdle /\ ExtIdle

WritersNext ==
    \E w \in Writers :
        \/ \E p \in WriterInputs : WCall(w, p)
        \/ WRow(w)
        \/ WDelTags(w)
        \/ WInsTag(w)
        \/ WDelVars(w)
        \/ WInsVar(w)
        \/ WDelFts(w)
        \/ WInsFts(w)

SpecWriters == WritersInit /\ [][WritersNext]_vars

(***************************************************************************)
(* C34. Concurrent writers are serializable: when two processes upsert     *)
(* prompts with the same id at the same time, their statements             *)
(* interleaving in any order, neither call fails with a constraint         *)
(* violation and the final store state equals the result of one of the two *)
(* serial orders: one prompt row and the tag rows, variable rows and       *)
(* single search-index entry of the prompt that was written last.          *)
(***************************************************************************)
\* Both processes have returned from their call.
BothReturned == \A w \in Writers : wpc[w] = "idle" /\ wres[w] /= "none"

\* What the store holds for an id: the row, the tag rows as a set, the
\* variable rows and the index entries in the order of their rowid.
HeldFor(d, id) ==
    [row |-> {r \in d.prompts : r.id = id},
     tags |-> Range(TagRowsOf(d, id)),
     variables |-> VariableRowsOf(d, id),
     fts |-> FtsRowsOf(d, id)]

C34_WritersSerializable ==
    BothReturned =>
        /\ \A w \in Writers : wres[w] = "ok"
        /\ \E first, second \in Writers :
              /\ first /= second
              /\ HeldFor(db, "p1") =
                    HeldFor(UpsertEach(pre, <<wp[first][1], wp[second][1]>>), "p1")

(***************************************************************************)
(* C35. The denormalized tags text never drifts: in every state reachable  *)
(* by any sequence of upsert and bulk_upsert calls, the tags_text of each  *)
(* prompt row equals the space-join of that prompt's current tag rows.     *)
(***************************************************************************)
\* The tags of the tag rows of an id, in the order of the rows.
RECURSIVE TagsOfRows(_)
TagsOfRows(rows) ==
    IF rows = <<>> THEN <<>> ELSE <<Head(rows).tag>> \o TagsOfRows(Tail(rows))

\* The column holds a text (a sequence of pieces), not NULL.
HoldsText(column) == ToString(column) /= ToString(NULL)

C35_TagsTextNeverDrifts ==
    last.op \in {"open", "upsert", "bulk_upsert"} =>
        \A r \in db.prompts :
            /\ HoldsText(r.tags_text)
            /\ r.tags_text = join(TagsOfRows(TagRowsOf(db, r.id)))

(***************************************************************************)
(* C36. refresh() sends the conditional If-None-Match header with its      *)
(* request if and only if a cache file exists (one that parses) and its    *)
(* sidecar holds an etag, and the value sent is the etag stored by the     *)
(* most recent refresh that received new data: the value sent is the one   *)
(* the sidecar holds, a 304 refresh leaves the stored etag unchanged, and  *)
(* new data that comes without an entity-tag header clears it (the file    *)
(* system performing the writes).                                          *)
(***************************************************************************)
\* The etag a sidecar file holds, NULL when it holds none.
StoredEtag(meta) == IF meta.kind = "json" THEN meta.meta.etag ELSE NULL

C36_ConditionalEtag ==
    (lres.op = "refresh" /\ lres.fetched = 1) =>
        /\ (lres.if_none_match /= NULL) <=>
              (lpre.cache.kind = "json" /\ StoredEtag(lpre.meta) /= NULL)
        /\ lres.if_none_match /= NULL => lres.if_none_match = StoredEtag(lpre.meta)
        /\ (lres.resp.kind = "not_modified" /\ lres.io = "ok") =>
              StoredEtag(metaFile) = StoredEtag(lpre.meta)
        /\ (lres.resp.kind = "ok" /\ lres.io = "ok") =>
              StoredEtag(metaFile) = lres.resp.etag

\* A refresh() sent the etag an earlier refresh() had stored and received
\* new data without an ETag header: the sidecar holds no etag any more.
C36_Witness ==
    /\ lres.op = "refresh" /\ lres.fetched = 1 /\ lres.io = "ok"
    /\ lres.if_none_match = "e1"
    /\ lres.resp.kind = "ok" /\ lres.resp.etag = NULL
    /\ StoredEtag(lpre.meta) = "e1"
    /\ StoredEtag(metaFile) = NULL

(***************************************************************************)
(* C37. After the refresh command completes, the store holds every prompt  *)
(* of the source it used (remote, cache or bundled), each with that        *)
(* source's current field values, tags and variables; the command does not *)
(* report success while a prompt of the source is missing from the store.  *)
(* (The tags are compared as a set.)                                       *)
(***************************************************************************)
C37_RefreshLoadsSource ==
    (last.op = "refresh_command" /\ out.exit = "SUCCESS") =>
        \A k \in 1..Len(out.prompts) :
            LET p == out.prompts[k]
                got == get_prompt(db, p.id)
            IN (\A j \in (k + 1)..Len(out.prompts) : out.prompts[j].id /= p.id) =>
                  /\ got /= None
                  /\ [got[1] EXCEPT !.tags = Range(@)] = [p EXCEPT !.tags = Range(@)]

(***************************************************************************)
(* C38. Referential integrity holds in every reachable state: after any    *)
(* sequence of upsert, bulk_upsert and import calls, including calls that  *)
(* fail part-way, every tag row and every variable row references an       *)
(* existing prompt row, and every search-index entry carries the id of an  *)
(* existing prompt row.                                                    *)
(***************************************************************************)
C38_ReferentialIntegrity ==
    /\ \A i \in 1..Len(db.prompt_tags) : HasRow(db, db.prompt_tags[i].prompt_id)
    /\ \A i \in 1..Len(db.prompt_variables) : HasRow(db, db.prompt_variables[i].prompt_id)
    /\ \A i \in 1..Len(db.prompts_fts) : HasRow(db, db.prompts_fts[i].id)

\* An upsert failed part-way on a store that holds tag rows, a variable row
\* and an index entry, and left a tag row of its own.
C38_Witness ==
    /\ last.op = "upsert" /\ ~last.ok
    /\ db /= pre
    /\ TagRowsOf(db, last.arg.id) /= <<>>
    /\ db.prompt_variables /= <<>>
    /\ db.prompts_fts /= <<>>
    /\ ~HasRow(pre, last.arg.id)

(***************************************************************************)
(* The store under all its writers: upsert_prompt, bulk_upsert_prompts,    *)
(* import_jsonl and the refresh command, one call at a time.               *)
(***************************************************************************)
\* The prompts and lists written, the files imported, the answers of the
\* registry: of each a call that succeeds and one that fails.
KeepPrompts == {FilePromptB, FilePromptC}
KeepLists == {<<FilePromptA>>, <<FilePromptA, FilePromptC>>}
KeepFiles == {<<MetaLine, PromptLine(FilePromptA), PromptLine(FilePromptB)>>,
              <<BlankLine, PromptLine(FilePromptB), BadMetaLine, BadLine>>}
KeepResponses ==
    {resp \in CmdResponses : resp.kind = "ok" => Len(resp.prompts) \in {1, 2}}

KeepNext ==
    \/ \E p \in KeepPrompts : Upsert(p)
    \/ \E ps \in KeepLists : BulkUpsert(ps)
    \/ \E file \in KeepFiles : Import(file)
    \/ \E open_ok \in BOOLEAN, resp \in KeepResponses :
          \E io \in IoFor(resp) \cap {"ok", "cache_error"} : CmdRefresh(open_ok, resp, io)

SpecKeep == CmdInit /\ [][KeepNext]_vars

(***************************************************************************)
(* C39. No store operation removes a prompt: across any sequence of        *)
(* upsert, bulk_upsert, import and refresh-command runs the set of prompt  *)
(* ids in the store never shrinks; in particular, after a refresh the      *)
(* store still holds the prompts that are absent from the newly fetched    *)
(* registry.                                                               *)
(***************************************************************************)
C39_NoPromptRemoved ==
    last.op \in {"upsert", "bulk_upsert", "import", "refresh_command"} =>
        IdsOf(pre) \subseteq IdsOf(db)

\* A refresh command loaded a registry that lacks a prompt of the store and
\* the prompt is still there.
C39_Witness ==
    /\ last.op = "refresh_command" /\ out.source = "remote"
    /\ \E id \in IdsOf(pre) :
          /\ \A k \in 1..Len(out.prompts) : out.prompts[k].id /= id
          /\ id \in IdsOf(db)
    /\ IdsOf(db) /= IdsOf(pre)

(***************************************************************************)
(* C40. The refresh command sets last_sync to the current time on every    *)
(* run in which the store opens, also when the remote fetch failed and the *)
(* prompts came from the stale cache or the bundled set, so a status       *)
(* command run right after it (and opening the store) reports stale=false. *)
(***************************************************************************)
StatusResponses ==
    {resp \in CmdResponses : resp.kind = "ok" => Len(resp.prompts) = 1}

StatusNext ==
    \/ \E open_ok \in BOOLEAN, resp \in StatusResponses : \E io \in IoFor(resp) :
          CmdRefresh(open_ok, resp, io)
    \/ CmdTick
    \/ \E db_exists, open_ok \in BOOLEAN : CmdStatus(db_exists, open_ok)

SpecStatus == CmdInit /\ [][StatusNext]_vars

C40_RefreshSetsLastSync ==
    (last.op = "refresh_command" /\ out.opened) =>
        /\ get_meta(db, "last_sync") = Some(to_rfc3339(lpre.now))
        /\ (run.cmd = "status" /\ run.opened /\ run.args.lops = lops) =>
              /\ run.res[1].last_sync = Some(to_rfc3339(lpre.now))
              /\ ~run.res[1].stale
              /\ run.res[1].source = "local"

\* The fetch of a refresh run failed, the bundled prompts were loaded, and
\* the status command run after it reports the time of that run.
C40_Witness ==
    /\ last.op = "refresh_command" /\ out.opened
    /\ lres.resp.kind = "error" /\ out.source = "bundled"
    /\ run.cmd = "status" /\ run.opened /\ run.args.lops = lops
    /\ ~run.res[1].stale

====
